---- MODULE Spec2Model ----
(***************************************************************************)
(* Streaming aggregation and delivery engine of the message bridge.        *)
(*                                                                         *)
(* The event flow is the one of handler/command.ts (lines 705-1150: the    *)
(* listener with injected deps, continuation carry and split), with the    *)
(* continuation helpers of handler/execution.flow.ts.  flushMessage,       *)
(* flushAll and the two-attempt safeEditWithRetry are the in-tree ones of  *)
(* handler/index.ts (46-88).  bridge/buffer.ts and handler/                *)
(* message.delivery.ts are not part of the sources: getOrInitBuffer,       *)
(* markStatus, applyPartToBuffer, shouldFlushNow, buildDisplayContent,     *)
(* simpleHash and the id-returning safeEditWithRetry used by the part      *)
(* handler are modelled from the specification (sections 3, 4.2, 4.5,      *)
(* 4.6).                                                                   *)
(***************************************************************************)
EXTENDS Integers, Sequences, FiniteSets, TLC

(***************************************************************************)
(* Bounds of the model.                                                    *)
(***************************************************************************)
MaxEvents == 3        \* stimuli of one behaviour: backend events, stream failures and
                      \* ends, stop and session-delete commands
MaxTurnEvents == 4    \* SpecTurn: part and idle events of one session
MaxFaults == 1        \* SpecFault: handlers that run against a failing adapter
MaxRetry == 13        \* cap of retryCount

(***************************************************************************)
(* Program constants.                                                      *)
(***************************************************************************)
EXECUTION_TO_ANSWER_SPLIT_MIN_TEXT == 120

Sessions == {"s1", "s2"}
\* backend message ids; every message id belongs to one session
Msgs == {"m1", "m2", "m3"}
SessionOf(m) == IF m = "m3" THEN "s2" ELSE "s1"
NoMsg == ""
CallIds == {"call1"}
\* the connect closures a behaviour can create, in the order of their creation
LoopIds == {1, 2}
AdapterKeys == {"lark-bridge"}
Chats == {"chatA"}
\* the adapters registered in the mux at bootstrap: one per enabled bridge
mux == {"lark-bridge", "telegram-bridge"}

NoPlatformMsg == 0    \* platformMsgId = null

(***************************************************************************)
(* Strings.  Only length, trimmed length and emptiness of a string are     *)
(* observed by the code, so a string is its leading whitespace, its        *)
(* trimmed core and its trailing whitespace.                               *)
(***************************************************************************)
Str(l, c, t) == [lead |-> l, core |-> c, trail |-> t]
EmptyStr == Str(0, 0, 0)
Length(s) == s.lead + s.core + s.trail
\* String.prototype.trim().length
TrimLength(s) == s.core
\* s + d
Concat(s, d) ==
  IF s.core = 0
    THEN IF d.core = 0
           THEN Str(Length(s) + Length(d), 0, 0)
           ELSE Str(Length(s) + d.lead, d.core, d.trail)
    ELSE IF d.core = 0
           THEN Str(s.lead, s.core, s.trail + Length(d))
           ELSE Str(s.lead, s.core + s.trail + d.lead + d.core, d.trail)

Space == Str(1, 0, 0)
Char == Str(0, 1, 0)
LongText == Str(0, EXECUTION_TO_ANSWER_SPLIT_MIN_TEXT - 1, 0)
TextDeltas == {Char, LongText}
ReasoningDeltas == {Char}

(***************************************************************************)
(* Status notes.  isToolCallPhase lower-cases the note and looks for       *)
(* 'tool-calls' or 'tool calls'; over the finite alphabet of notes this    *)
(* is a table.                                                             *)
(***************************************************************************)
FinishReasons == {"tool-calls", "stop"}
ErrorMessages == {""}
ErrorNames == {"MessageAbortedError", "MessageOutputLengthError", "APIError", "UnknownError"}
NotesWithToolCalls == {"tool-calls", "Tool calls failed"}

ToolStates == {"running", "completed"}
NoTool == "none"
NoTools == [c \in CallIds |-> NoTool]
ToolsSize(tools) == Cardinality({c \in CallIds : tools[c] # NoTool})

NoHash == [none |-> TRUE]

(***************************************************************************)
(* bridge/buffer.ts (modelled from the specification).                     *)
(***************************************************************************)
NewBuffer ==
  [ text |-> EmptyStr, reasoning |-> EmptyStr, tools |-> NoTools, files |-> FALSE,
    status |-> "streaming", statusNote |-> "", platformMsgId |-> NoPlatformMsg,
    lastDisplayHash |-> NoHash, lastUpdateTime |-> 0, isCommand |-> FALSE,
    executionCarried |-> FALSE ]

\* getOrInitBuffer(msgBuffers, messageId): the store with the buffer present
getOrInitBuffer(bufs, m) ==
  IF m \in DOMAIN bufs THEN bufs
  ELSE [x \in (DOMAIN bufs) \cup {m} |-> IF x = m THEN NewBuffer ELSE bufs[x]]

IsTerminal(status) == status \in {"done", "error", "aborted"}

\* variant of markStatus that overwrites a terminal status
markStatus_unguarded(bufs, m, status, note) ==
  IF m \notin DOMAIN bufs THEN bufs
  ELSE [bufs EXCEPT ![m].status = status,
                    ![m].statusNote = IF note = "" THEN @ ELSE note]

\* markStatus(msgBuffers, messageId, status, note): streaming -> terminal only;
\* an unknown message id is a no-op.  note = "" stands for an omitted note.
markStatus(bufs, m, status, note) ==
  IF m \notin DOMAIN bufs THEN bufs
  ELSE IF IsTerminal(bufs[m].status) THEN bufs
  ELSE [bufs EXCEPT ![m].status = status,
                    ![m].statusNote = IF note = "" THEN @ ELSE note]

\* a tool state never regresses from completed/error to running
UpsertTool(old, new) ==
  IF old \in {"completed", "error"} /\ new = "running" THEN old ELSE new

\* variant of applyPartToBuffer in which a step-finish closes a buffer of any status
applyPartToBuffer_finishAlways(buf, part) ==
  CASE part.type = "text" ->
         [buf EXCEPT !.text = IF part.isDelta THEN Concat(@, part.value) ELSE part.value]
    [] part.type = "reasoning" ->
         [buf EXCEPT !.reasoning = IF part.isDelta THEN Concat(@, part.value) ELSE part.value]
    [] part.type = "tool" ->
         [buf EXCEPT !.tools[part.callID] = UpsertTool(@, part.state)]
    [] part.type = "file" ->
         [buf EXCEPT !.files = TRUE]
    [] part.type = "step-finish" ->
         [buf EXCEPT !.status = "done", !.statusNote = part.reason]

\* variant of applyPartToBuffer that takes a delta for the whole value
applyPartToBuffer_replace(buf, part) ==
  CASE part.type = "text" -> [buf EXCEPT !.text = part.value]
    [] part.type = "reasoning" -> [buf EXCEPT !.reasoning = part.value]
    [] part.type = "tool" ->
         [buf EXCEPT !.tools[part.callID] = UpsertTool(@, part.state)]
    [] part.type = "file" ->
         [buf EXCEPT !.files = TRUE]
    [] part.type = "step-finish" ->
         IF buf.status = "streaming"
           THEN [buf EXCEPT !.status = "done", !.statusNote = part.reason]
           ELSE buf

\* applyPartToBuffer(buffer, part, delta)
applyPartToBuffer(buf, part) ==
  CASE part.type = "text" ->
         [buf EXCEPT !.text = IF part.isDelta THEN Concat(@, part.value) ELSE part.value]
    [] part.type = "reasoning" ->
         [buf EXCEPT !.reasoning = IF part.isDelta THEN Concat(@, part.value) ELSE part.value]
    [] part.type = "tool" ->
         [buf EXCEPT !.tools[part.callID] = UpsertTool(@, part.state)]
    [] part.type = "file" ->
         [buf EXCEPT !.files = TRUE]
    [] part.type = "step-finish" ->
         IF buf.status = "streaming"
           THEN [buf EXCEPT !.status = "done", !.statusNote = part.reason]
           ELSE buf

AGENT_TELEGRAM == "telegram-bridge"
UPDATE_INTERVAL == 900
TELEGRAM_UPDATE_INTERVAL == 250

getUpdateIntervalByAdapter(adapterKey) ==
  IF adapterKey = AGENT_TELEGRAM THEN TELEGRAM_UPDATE_INTERVAL ELSE UPDATE_INTERVAL

\* variant of shouldFlushNowAt that never throttles
shouldFlushNowAt_always(buf, now, adapterKey) == TRUE

\* shouldFlushNow(buffer) at time now for a buffer of a session of adapterKey
shouldFlushNowAt(buf, now, adapterKey) ==
  now - buf.lastUpdateTime >= getUpdateIntervalByAdapter(adapterKey)

\* shouldFlushNow(buffer): the update interval has elapsed since lastUpdateTime
\* (a buffer never flushed has lastUpdateTime 0)
shouldFlushNow(buf, elapsed) == buf.lastUpdateTime = 0 \/ elapsed

\* buildDisplayContent(buffer): the neutral display of the buffer state
buildDisplayContent(buf) ==
  [ text |-> buf.text, reasoning |-> buf.reasoning, tools |-> buf.tools,
    files |-> buf.files, status |-> buf.status, statusNote |-> buf.statusNote,
    isCommand |-> buf.isCommand ]

\* content.trim() === '' : nothing of the buffer's content is visible
IsBlank(display) ==
  /\ TrimLength(display.text) = 0
  /\ TrimLength(display.reasoning) = 0
  /\ ToolsSize(display.tools) = 0
  /\ ~display.files

\* simpleHash(display): equal displays hash equal, different displays differ
simpleHash(display) == display

(***************************************************************************)
(* The adapter contract.  A handler runs against an adapter that works     *)
(* ("ok"), whose edits fail while sends work ("editfail": the message was  *)
(* deleted on the platform) or whose calls all fail ("down").  A world w   *)
(* threads the buffer store, the next platform message id, the adapter     *)
(* calls made so far (ops) and the flushMessage invocations (calls)        *)
(* through one handler.                                                    *)
(***************************************************************************)
NetModes == {"ok", "editfail", "down"}

World(bufs, nid) ==
  [bufs |-> bufs, nid |-> nid, ops |-> <<>>, calls |-> <<>>,
   retId |-> NoPlatformMsg, retOk |-> FALSE]

\* adapter.sendMessage(chatId, content) -> messageId | null
sendMessage(w, net, m, display) ==
  LET ok == net # "down"
      id == IF ok THEN w.nid ELSE NoPlatformMsg
  IN [w EXCEPT !.ops = Append(@, [op |-> "send", pid |-> id, mid |-> m,
                                  text |-> display.text, status |-> display.status,
                                  ok |-> ok]),
               !.nid = IF ok THEN @ + 1 ELSE @,
               !.retId = id]

\* adapter.editMessage(chatId, messageId, content) -> bool
editMessage(w, net, pid, m, display) ==
  LET ok == net = "ok"
  IN [w EXCEPT !.ops = Append(@, [op |-> "edit", pid |-> pid, mid |-> m,
                                  text |-> display.text, status |-> display.status,
                                  ok |-> ok]),
               !.retOk = ok]

(***************************************************************************)
(* handler/execution.flow.ts                                               *)
(***************************************************************************)
\* variant of hasSubstantiveAnswerText with the threshold one lower
hasSubstantiveAnswerText_anyText(buf) == TrimLength(buf.text) > 0

hasSubstantiveAnswerText(buf) == TrimLength(buf.text) > 1

isToolCallPhase(buf) == buf.statusNote \in NotesWithToolCalls

shouldCarryPlatformMessageAcrossAssistantMessages(prevBuf) ==
  IF prevBuf.platformMsgId = NoPlatformMsg THEN FALSE
  ELSE IF prevBuf.status = "error" \/ prevBuf.status = "aborted" THEN FALSE
  ELSE IF isToolCallPhase(prevBuf) THEN TRUE
  ELSE /\ ~hasSubstantiveAnswerText(prevBuf)
       /\ (ToolsSize(prevBuf.tools) # 0 \/ TrimLength(prevBuf.reasoning) # 0)

\* variant of carryPlatformMessage that leaves prevBuf.platformMsgId in place
carryPlatformMessage_keepPrev(bufs, prev, next) ==
  [bufs EXCEPT ![next].platformMsgId = bufs[prev].platformMsgId,
               ![next].lastDisplayHash = NoHash,
               ![next].executionCarried = TRUE]

\* variant of carryPlatformMessage that does not set executionCarried
carryPlatformMessage_noFlag(bufs, prev, next) ==
  [bufs EXCEPT ![next].platformMsgId = bufs[prev].platformMsgId,
               ![next].lastDisplayHash = NoHash,
               ![prev].platformMsgId = NoPlatformMsg]

\* carryPlatformMessage(prevBuf, nextBuf) on the buffers of prev and next
carryPlatformMessage(bufs, prev, next) ==
  LET prevBuf == bufs[prev]
      nextBuf == bufs[next]
      carried == [nextBuf EXCEPT
                    !.platformMsgId = prevBuf.platformMsgId,
                    !.lastDisplayHash = NoHash,
                    !.executionCarried = TRUE,
                    !.tools = IF ToolsSize(nextBuf.tools) = 0 /\ ToolsSize(prevBuf.tools) > 0
                                THEN prevBuf.tools ELSE @,
                    !.files = IF ~nextBuf.files /\ prevBuf.files THEN TRUE ELSE @]
  IN [bufs EXCEPT ![next] = carried, ![prev].platformMsgId = NoPlatformMsg]

shouldSplitOutFinalAnswer(buf) ==
  IF buf.platformMsgId = NoPlatformMsg \/ ~buf.executionCarried THEN FALSE
  ELSE IF isToolCallPhase(buf) THEN FALSE
  ELSE TrimLength(buf.text) >= EXECUTION_TO_ANSWER_SPLIT_MIN_TEXT

splitFinalAnswerFromExecution(buf) ==
  [buf EXCEPT !.platformMsgId = NoPlatformMsg, !.lastDisplayHash = NoHash,
              !.executionCarried = FALSE, !.tools = NoTools]

\* variant of buildFinalizedExecutionContent that keeps the answer text
buildFinalizedExecutionContent_keepText(buf) ==
  buildDisplayContent([buf EXCEPT !.status = "done",
                                  !.statusNote = IF @ = "" THEN "tool-calls" ELSE @])

buildFinalizedExecutionContent(buf) ==
  buildDisplayContent([buf EXCEPT !.text = EmptyStr, !.status = "done",
                                  !.statusNote = IF @ = "" THEN "tool-calls" ELSE @])

buildPlatformDisplay(buf) ==
  IF buf.executionCarried /\ ToolsSize(buf.tools) > 0 /\ hasSubstantiveAnswerText(buf)
    THEN buildDisplayContent([buf EXCEPT !.text = EmptyStr])
    ELSE buildDisplayContent(buf)

(***************************************************************************)
(* Delivery.                                                               *)
(***************************************************************************)
\* handler/index.ts safeEditWithRetry: an edit, and one retry; retOk is the result
safeEditWithRetry(w, net, pid, m, display) ==
  LET w1 == editMessage(w, net, pid, m, display)
  IN IF w1.retOk THEN w1 ELSE editMessage(w1, net, pid, m, display)

\* handler/message.delivery.ts safeEditWithRetry (specification 4.6): an edit, one
\* retry, then a new message; retId is the id of the message that now shows the
\* content, or null
deliverySafeEditWithRetry(w, net, pid, m, display) ==
  LET w2 == safeEditWithRetry(w, net, pid, m, display)
  IN IF w2.retOk THEN [w2 EXCEPT !.retId = pid] ELSE sendMessage(w2, net, m, display)

\* variant of flushMessage in which force does not bypass the hash comparison
flushMessage_hashFirst(w, net, m, force) ==
  LET has == m \in DOMAIN w.bufs
      buffer == w.bufs[m]
      content == buildPlatformDisplay(buffer)
      hash == simpleHash(content)
      call == [call |-> "flushMessage", mid |-> m, force |-> force,
               hadPid |-> has /\ buffer.platformMsgId # NoPlatformMsg,
               blank |-> has /\ IsBlank(content),
               sameHash |-> has /\ hash = buffer.lastDisplayHash,
               issued |-> FALSE]
      skipped == [w EXCEPT !.calls = Append(@, call)]
  IN IF ~has THEN skipped
     ELSE IF buffer.platformMsgId = NoPlatformMsg THEN skipped
     ELSE IF IsBlank(content) THEN skipped
     ELSE IF hash = buffer.lastDisplayHash THEN skipped
     ELSE LET w1 == [w EXCEPT !.bufs[m].lastDisplayHash = hash,
                              !.calls = Append(@, [call EXCEPT !.issued = TRUE])]
          IN editMessage(w1, net, buffer.platformMsgId, m, content)

\* flushMessage(adapter, chatId, messageId, force), display built by buildPlatformDisplay
flushMessage(w, net, m, force) ==
  LET has == m \in DOMAIN w.bufs
      buffer == w.bufs[m]
      content == buildPlatformDisplay(buffer)
      hash == simpleHash(content)
      call == [call |-> "flushMessage", mid |-> m, force |-> force,
               hadPid |-> has /\ buffer.platformMsgId # NoPlatformMsg,
               blank |-> has /\ IsBlank(content),
               sameHash |-> has /\ hash = buffer.lastDisplayHash,
               issued |-> FALSE]
      skipped == [w EXCEPT !.calls = Append(@, call)]
  IN IF ~has THEN skipped
     ELSE IF buffer.platformMsgId = NoPlatformMsg THEN skipped
     ELSE IF IsBlank(content) THEN skipped
     ELSE IF ~force /\ hash = buffer.lastDisplayHash THEN skipped
     ELSE LET w1 == [w EXCEPT !.bufs[m].lastDisplayHash = hash,
                              !.calls = Append(@, [call EXCEPT !.issued = TRUE])]
          IN safeEditWithRetry(w1, net, buffer.platformMsgId, m, content)

(***************************************************************************)
(* State.                                                                  *)
(***************************************************************************)
VARIABLES
  sessionToCtx,         \* sessionId -> chat id
  sessionToAdapterKey,  \* sessionId -> adapterKey
  sessionActiveMsg,     \* sessionId -> active assistant message id
  msgRole,              \* messageId -> role
  msgBuffers,           \* messageId -> buffer
  isListenerStarted,
  shouldStopListener,
  loops,                \* the connect closures: state and retryCount of each
  nextId,               \* the id the platform gives to the next message sent
  eventsLeft,           \* stimuli the behaviour may still see
  faultBudget,          \* handlers that may still run against a failing adapter
  last,                 \* what the last step did (history)
  shown,                \* message ids whose current answer text was delivered (history)
  faultOps,             \* per message id: deliveries showing its fault status (history)
  finalized,            \* platform ids finalized by a switch without carry (history)
  lateEdit,             \* an edit reached a finalized platform id later on (history)
  splitPending          \* message ids split off whose new message is not sent yet (history)

vars == << sessionToCtx, sessionToAdapterKey, sessionActiveMsg, msgRole, msgBuffers,
           isListenerStarted, shouldStopListener, loops, nextId, eventsLeft,
           faultBudget, last, shown, faultOps, finalized, lateEdit, splitPending >>

EmptyMap == [x \in {} |-> 0]
MapSet(f, k, v) == [x \in (DOMAIN f) \cup {k} |-> IF x = k THEN v ELSE f[x]]
MapDelete(f, k) == [x \in (DOMAIN f) \ {k} |-> f[x]]

NoSwitch ==
  [kind |-> "none", prev |-> NoMsg, next |-> NoMsg, prevPid |-> NoPlatformMsg,
   prevPidAfter |-> NoPlatformMsg, prevStatusAfter |-> "", nextPidAfter |-> NoPlatformMsg,
   nextCarriedAfter |-> FALSE, nops |-> 0]
NoSplit == [happened |-> FALSE, mid |-> NoMsg, pid |-> NoPlatformMsg, from |-> 0, to |-> 0]

\* variant of resolveSessionTarget that resolves every session
resolveSessionTarget_any(sid) == TRUE

\* resolveSessionTarget(sessionId, mux, deps) # null
resolveSessionTarget(sid) ==
  /\ sid \in DOMAIN sessionToCtx
  /\ sid \in DOMAIN sessionToAdapterKey
  /\ sessionToAdapterKey[sid] \in mux

\* the outcome of a handler that returned before touching anything
Unhandled ==
  [w |-> World(msgBuffers, nextId), active |-> sessionActiveMsg, roles |-> msgRole,
   handled |-> FALSE, switch |-> NoSwitch, split |-> NoSplit]

Handled(w, active) ==
  [w |-> w, active |-> active, roles |-> msgRole,
   handled |-> TRUE, switch |-> NoSwitch, split |-> NoSplit]

(***************************************************************************)
(* handler/command.ts: the event handlers.                                 *)
(***************************************************************************)
finalizeExecutionCardBeforeSplit(w, net, m) ==
  LET buffer == w.bufs[m]
  IN IF buffer.platformMsgId = NoPlatformMsg THEN w
     ELSE deliverySafeEditWithRetry(w, net, buffer.platformMsgId, m,
                                    buildFinalizedExecutionContent(buffer))

\* an error descriptor is [name, message]; message "" stands for no data.message
isAbortedError(err) == err.name = "MessageAbortedError"
isOutputLengthError(err) == err.name = "MessageOutputLengthError"
\* variant of isApiError that recognises no error
isApiError_never(err) == FALSE

isApiError(err) == err.name = "APIError"

NoError == [name |-> "", message |-> ""]
Or(a, b) == IF a # "" THEN a ELSE b

\* info = [id, sessionID, role, error, finish, completed]
handleMessageUpdatedEvent(info, net) ==
  LET roles == MapSet(msgRole, info.id, info.role)
      sid == info.sessionID
      mid == info.id
      roleOnly == [Unhandled EXCEPT !.roles = roles]
  IN IF info.role # "assistant" THEN roleOnly
     ELSE IF ~resolveSessionTarget(sid) THEN roleOnly
     ELSE
       LET active == IF sid \in DOMAIN sessionActiveMsg
                       THEN sessionActiveMsg ELSE MapSet(sessionActiveMsg, sid, mid)
           w0 == World(msgBuffers, nextId)
           marked ==
             IF isAbortedError(info.error)
               THEN markStatus(w0.bufs, mid, "aborted", Or(info.error.message, "aborted"))
             ELSE IF isOutputLengthError(info.error)
               THEN markStatus(w0.bufs, mid, "error", "output too long")
             ELSE IF isApiError(info.error)
               THEN markStatus(w0.bufs, mid, "error", Or(info.error.message, "api error"))
             ELSE markStatus(w0.bufs, mid, "error",
                             Or(info.error.message, Or(info.error.name, "error")))
       IN IF info.error # NoError
            THEN [Handled(flushMessage([w0 EXCEPT !.bufs = marked], net, mid, TRUE), active)
                    EXCEPT !.roles = roles]
          ELSE IF info.finish # "" \/ info.completed
            THEN [Handled(flushMessage(
                            [w0 EXCEPT !.bufs = markStatus(@, mid, "done",
                                                           Or(info.finish, "completed"))],
                            net, mid, TRUE), active)
                    EXCEPT !.roles = roles]
          ELSE [Handled(w0, active) EXCEPT !.roles = roles]

\* the debug line of a flush skipped for an unchanged display (line 964)
SkipSameHash(m) == [call |-> "skip-flush", mid |-> m, reason |-> "same-hash"]

\* variant of flushPart without the comparison with lastDisplayHash
flushPart_noDedup(w, net, m, elapsed) ==
  LET buffer == w.bufs[m]
      hasAny == Length(buffer.reasoning) > 0 \/ Length(buffer.text) > 0
                  \/ ToolsSize(buffer.tools) > 0
      w1 == [w EXCEPT !.bufs[m].lastUpdateTime = 1]
      display == buildPlatformDisplay(buffer)
      hash == simpleHash(display)
  IN IF ~shouldFlushNow(buffer, elapsed) THEN w
     ELSE IF ~hasAny THEN w
     ELSE IF buffer.platformMsgId = NoPlatformMsg
       THEN LET ws == sendMessage(w1, net, m, display)
            IN IF ws.retId # NoPlatformMsg
                 THEN [ws EXCEPT !.bufs[m].platformMsgId = ws.retId,
                                 !.bufs[m].lastDisplayHash = hash]
                 ELSE ws
       ELSE LET we == deliverySafeEditWithRetry(w1, net, buffer.platformMsgId, m, display)
            IN IF we.retId # NoPlatformMsg
                 THEN [we EXCEPT !.bufs[m].platformMsgId = we.retId,
                                 !.bufs[m].lastDisplayHash = hash]
                 ELSE we

\* lines 947-993: the throttled send-or-edit of the part handler
flushPart(w, net, m, elapsed) ==
  LET buffer == w.bufs[m]
      hasAny == Length(buffer.reasoning) > 0 \/ Length(buffer.text) > 0
                  \/ ToolsSize(buffer.tools) > 0
      w1 == [w EXCEPT !.bufs[m].lastUpdateTime = 1]
      display == buildPlatformDisplay(buffer)
      hash == simpleHash(display)
  IN IF ~shouldFlushNow(buffer, elapsed) THEN w
     ELSE IF ~hasAny THEN w
     ELSE IF buffer.platformMsgId # NoPlatformMsg /\ hash = buffer.lastDisplayHash
       THEN [w1 EXCEPT !.calls = Append(@, SkipSameHash(m))]
     ELSE IF buffer.platformMsgId = NoPlatformMsg
       THEN LET ws == sendMessage(w1, net, m, display)
            IN IF ws.retId # NoPlatformMsg
                 THEN [ws EXCEPT !.bufs[m].platformMsgId = ws.retId,
                                 !.bufs[m].lastDisplayHash = hash]
                 ELSE ws
       ELSE LET we == deliverySafeEditWithRetry(w1, net, buffer.platformMsgId, m, display)
            IN IF we.retId # NoPlatformMsg
                 THEN [we EXCEPT !.bufs[m].platformMsgId = we.retId,
                                 !.bufs[m].lastDisplayHash = hash]
                 ELSE we

\* lines 921-994: what the part handler does once the switch is settled
partAfterSwitch(wSwitch, m, part, elapsed, net) ==
  LET wInit == [wSwitch EXCEPT !.bufs = getOrInitBuffer(@, m)]
      wApplied == [wInit EXCEPT !.bufs[m] = applyPartToBuffer(@, part)]
      splitting == shouldSplitOutFinalAnswer(wApplied.bufs[m])
      wSplit ==
        IF splitting
          THEN [finalizeExecutionCardBeforeSplit(wApplied, net, m)
                  EXCEPT !.bufs[m] = splitFinalAnswerFromExecution(@)]
          ELSE wApplied
      split ==
        IF splitting
          THEN [happened |-> TRUE, mid |-> m,
                pid |-> wApplied.bufs[m].platformMsgId,
                from |-> Len(wApplied.ops), to |-> Len(wSplit.ops)]
          ELSE NoSplit
      wStep ==
        IF part.type = "step-finish" /\ wSplit.bufs[m].status = "streaming"
          THEN [wSplit EXCEPT !.bufs = markStatus(@, m, "done", Or(part.reason, "step-finish"))]
          ELSE wSplit
  IN [w |-> flushPart(wStep, net, m, elapsed), split |-> split]

\* part carries sessionID = sid and messageID = m
handleMessagePartUpdatedEvent(sid, m, part, elapsed, net) ==
  IF m \in DOMAIN msgRole /\ msgRole[m] = "user" THEN Unhandled
  ELSE IF ~resolveSessionTarget(sid) THEN Unhandled
  ELSE
    LET w0 == World(msgBuffers, nextId)
        switching == sid \in DOMAIN sessionActiveMsg /\ sessionActiveMsg[sid] # m
        prev == sessionActiveMsg[sid]
        withNext == getOrInitBuffer(w0.bufs, m)
        carry == /\ switching
                 /\ prev \in DOMAIN msgBuffers
                 /\ shouldCarryPlatformMessageAcrossAssistantMessages(msgBuffers[prev])
        wSwitch ==
          IF ~switching THEN w0
          ELSE IF carry
            THEN [w0 EXCEPT !.bufs = carryPlatformMessage(withNext, prev, m)]
            ELSE flushMessage([w0 EXCEPT !.bufs = markStatus(withNext, prev, "done", "")],
                              net, prev, TRUE)
        switch ==
          IF ~switching THEN NoSwitch
          ELSE [kind |-> IF carry THEN "carry" ELSE "finalize",
                prev |-> prev, next |-> m,
                prevPid |-> IF prev \in DOMAIN msgBuffers
                              THEN msgBuffers[prev].platformMsgId ELSE NoPlatformMsg,
                prevPidAfter |-> IF prev \in DOMAIN wSwitch.bufs
                                   THEN wSwitch.bufs[prev].platformMsgId ELSE NoPlatformMsg,
                prevStatusAfter |-> IF prev \in DOMAIN wSwitch.bufs
                                      THEN wSwitch.bufs[prev].status ELSE "",
                nextPidAfter |-> wSwitch.bufs[m].platformMsgId,
                nextCarriedAfter |-> wSwitch.bufs[m].executionCarried,
                nops |-> Len(wSwitch.ops)]
        active == MapSet(sessionActiveMsg, sid, m)
        tail == partAfterSwitch(wSwitch, m, part, elapsed, net)
    IN [Handled(tail.w, active) EXCEPT !.switch = switch, !.split = tail.split]

\* variant of handleSessionErrorEvent that classifies no error as aborted
handleSessionErrorEvent_asError(sid, err, net) ==
  IF ~resolveSessionTarget(sid) THEN Unhandled
  ELSE IF sid \notin DOMAIN sessionActiveMsg THEN Unhandled
  ELSE
    LET mid == sessionActiveMsg[sid]
        w0 == World(msgBuffers, nextId)
        marked == markStatus(w0.bufs, mid, "error",
                             Or(err.message, Or(err.name, "session.error")))
    IN Handled(flushMessage([w0 EXCEPT !.bufs = marked], net, mid, TRUE), sessionActiveMsg)

handleSessionErrorEvent(sid, err, net) ==
  IF ~resolveSessionTarget(sid) THEN Unhandled
  ELSE IF sid \notin DOMAIN sessionActiveMsg THEN Unhandled
  ELSE
    LET mid == sessionActiveMsg[sid]
        w0 == World(msgBuffers, nextId)
        marked ==
          IF isAbortedError(err)
            THEN markStatus(w0.bufs, mid, "aborted", Or(err.message, "aborted"))
            ELSE markStatus(w0.bufs, mid, "error",
                            Or(err.message, Or(err.name, "session.error")))
    IN Handled(flushMessage([w0 EXCEPT !.bufs = marked], net, mid, TRUE), sessionActiveMsg)

handleSessionIdleEvent(sid, net) ==
  IF ~resolveSessionTarget(sid) THEN Unhandled
  ELSE IF sid \notin DOMAIN sessionActiveMsg THEN Unhandled
  ELSE
    LET mid == sessionActiveMsg[sid]
        w0 == World(msgBuffers, nextId)
    IN IF mid \in DOMAIN msgBuffers /\ msgBuffers[mid].status \in {"aborted", "error"}
         THEN Handled(flushMessage(w0, net, mid, TRUE), sessionActiveMsg)
         ELSE Handled(flushMessage([w0 EXCEPT !.bufs = markStatus(@, mid, "done", "idle")],
                                   net, mid, TRUE), sessionActiveMsg)

handleCommandExecutedEvent(mid) ==
  LET w0 == World(msgBuffers, nextId)
  IN Handled([w0 EXCEPT !.bufs = [getOrInitBuffer(@, mid) EXCEPT ![mid].isCommand = TRUE]],
             sessionActiveMsg)

(***************************************************************************)
(* handler/index.ts flushAll: one forced flush per session that has an     *)
(* active message, a chat context and a registered adapter.                *)
(***************************************************************************)
RECURSIVE flushAllOver(_, _, _)
flushAllOver(w, net, sids) ==
  IF sids = {} THEN w
  ELSE LET sid == CHOOSE x \in sids : TRUE
           skip == \/ sid \notin DOMAIN sessionToCtx
                   \/ sid \notin DOMAIN sessionToAdapterKey
                   \/ sessionToAdapterKey[sid] \notin mux
       IN IF skip THEN flushAllOver(w, net, sids \ {sid})
          ELSE flushAllOver(flushMessage(w, net, sessionActiveMsg[sid], TRUE),
                            net, sids \ {sid})

\* variant of flushAll that closes the active buffers before it flushes them
flushAll_closing(w, net) ==
  flushAllOver([w EXCEPT !.bufs = [m \in DOMAIN w.bufs |->
                                     IF \E sid \in DOMAIN sessionActiveMsg :
                                          sessionActiveMsg[sid] = m
                                       THEN [w.bufs[m] EXCEPT !.status = "done"]
                                       ELSE w.bufs[m]]],
               net, DOMAIN sessionActiveMsg)

flushAll(w, net) == flushAllOver(w, net, DOMAIN sessionActiveMsg)

\* variant of the target in which every session resolves to the target of one
resolvedTarget_oneForAll(sid) ==
  LET one == CHOOSE x \in (DOMAIN sessionToCtx) \cap (DOMAIN sessionToAdapterKey) : TRUE
  IN [adapterKey |-> sessionToAdapterKey[one], chatId |-> sessionToCtx[one]]

\* command.ts resolveSessionTarget: { ctx, adapter } of a session that resolves
resolvedTarget(sid) ==
  [adapterKey |-> sessionToAdapterKey[sid], chatId |-> sessionToCtx[sid]]

\* the adapter and chat id flushAll hands to flushMessage, call by call: the
\* calls of the flush of session sid are made on mux.get(adapterKey) of sid with
\* ctx.chatId of sid
RECURSIVE flushAllRoute(_, _, _, _)
flushAllRoute(w, net, sids, route) ==
  IF sids = {} THEN route
  ELSE LET sid == CHOOSE x \in sids : TRUE
           skip == \/ sid \notin DOMAIN sessionToCtx
                   \/ sid \notin DOMAIN sessionToAdapterKey
                   \/ sessionToAdapterKey[sid] \notin mux
           w1 == flushMessage(w, net, sessionActiveMsg[sid], TRUE)
       IN IF skip THEN flushAllRoute(w, net, sids \ {sid}, route)
          ELSE flushAllRoute(w1, net, sids \ {sid},
                             route \o [i \in 1..(Len(w1.ops) - Len(w.ops)) |->
                                         resolvedTarget(sid)])

(***************************************************************************)
(* Inputs.                                                                 *)
(***************************************************************************)
Part(type, isDelta, value, callID, state, reason) ==
  [type |-> type, isDelta |-> isDelta, value |-> value, callID |-> callID,
   state |-> state, reason |-> reason]

\* session s1 streams every kind of part and update; session s2, which stands for
\* the other sessions of the process, streams plain text
RichMsgs == {m \in Msgs : SessionOf(m) = "s1"}

Parts(m) ==
  IF m \in RichMsgs
    THEN {Part("text", TRUE, d, "", "", "") : d \in TextDeltas}
           \cup {Part("reasoning", TRUE, d, "", "", "") : d \in ReasoningDeltas}
           \cup {Part("tool", FALSE, EmptyStr, c, st, "") : c \in CallIds, st \in ToolStates}
           \cup {Part("step-finish", FALSE, EmptyStr, "", "", r) : r \in FinishReasons}
    ELSE {Part("text", TRUE, Char, "", "", "")}

Errors == {[name |-> n, message |-> msg] : n \in ErrorNames, msg \in ErrorMessages}

Infos ==
  {[id |-> m, sessionID |-> SessionOf(m), role |-> r, error |-> NoError,
    finish |-> "", completed |-> FALSE] : m \in Msgs, r \in {"user", "assistant"}}
    \cup {[id |-> m, sessionID |-> SessionOf(m), role |-> "assistant", error |-> e,
           finish |-> "", completed |-> FALSE] : m \in RichMsgs, e \in Errors}
    \cup {[id |-> m, sessionID |-> SessionOf(m), role |-> "assistant", error |-> NoError,
           finish |-> f, completed |-> TRUE] : m \in RichMsgs, f \in FinishReasons \cup {""}}

(***************************************************************************)
(* History.                                                                *)
(***************************************************************************)
Ops(w) == {w.ops[i] : i \in 1..Len(w.ops)}

\* the backend event a step handled: its type and payload
NoPart == [type |-> "", isDelta |-> FALSE, value |-> EmptyStr, callID |-> "",
           state |-> "", reason |-> ""]
NoInfo == [id |-> NoMsg, sessionID |-> "", role |-> "", error |-> NoError, finish |-> "",
           completed |-> FALSE]
Event(type, sid, mid, part, info, err) ==
  [type |-> type, sid |-> sid, mid |-> mid, part |-> part, info |-> info, err |-> err]
NoEvent == Event("", "", NoMsg, NoPart, NoInfo, NoError)

\* the time of a step (Date.now()), the time of the latest part-triggered
\* delivery of each buffer, and, when the step delivers a buffer again, the time
\* since its delivery before
NoClock == [now |-> 0, sentAt |-> EmptyMap, again |-> FALSE, since |-> 0]

\* the target (adapter key, chat id) each adapter call of a step was made with
NoRoute == << >>

\* the incoming side of a step: sessionCache (cache key -> session id) after it,
\* the chat that acted, the session its prompt was sent to, for each chat the
\* session of its latest /sessions <id> or /new since the last reset, the adapter
\* key of the chat, and the delete targets of a /sessions delete
NoRebind ==
  [sessionCache |-> EmptyMap, chat |-> "", sent |-> "", bound |-> EmptyMap,
   key |-> "", targets |-> {}]

\* incoming.flow.ts: the runs of the incoming handler.  A run is at the await it
\* is suspended on (pc); it holds the kind of its message, the reaction id of
\* addReaction (null = ""), the number of its removeReaction calls, the session
\* of its ensureSession and the session its prompt went to.
Handlers == {1, 2}

IdleHandler ==
  [pc |-> "idle", kind |-> "", reactionId |-> "", removed |-> 0, sid |-> "",
   prompted |-> ""]

NoIncoming ==
  [run |-> [p \in Handlers |-> IdleHandler], sessionCache |-> EmptyMap, created |-> {}]

\* bridge/file.store.ts: pendingFiles (chat key -> records), seenFiles (chat
\* key -> digest -> record), the record paths that exist on disk and the number
\* of records made; the parts the last drain returned, and how often each record
\* has been returned by a drain
EmptyStore == [pendingFiles |-> EmptyMap, seenFiles |-> EmptyMap, disk |-> {}, made |-> 0]

NoFiles == [store |-> EmptyStore, chat |-> "", parts |-> << >>, attached |-> EmptyMap]

\* feishu.client.ts: processedMessageIds in insertion order, every id recorded so
\* far in the order of recording (log), the number of distinct message ids the
\* platform has delivered, the recordings of this behaviour, and the id and
\* result of the last isMessageProcessed
NoDedup ==
  [ids |-> << >>, log |-> << >>, made |-> 0, recorded |-> 0, id |-> 0, result |-> FALSE]

\* feishu.client.ts 164-166: refreshTenantTokenPromise (0: undefined, n: the
\* promise of the n-th token request), the state of every promise made so far,
\* tenantToken (0: undefined, n: the token of the n-th request), whether the
\* token's expiry time has passed, the outcome of the last token request, and the position of every caller of
\* runWithTenantRetry
Callers == {1, 2}

IdleCaller == [pc |-> "idle", awaits |-> 0, outcome |-> "none"]

NoRefresh ==
  [refreshTenantTokenPromise |-> 0, promises |-> << >>, tenantToken |-> 0,
   expired |-> FALSE, started |-> 0, answer |-> "none", callers |-> [c \in Callers |-> IdleCaller]]

NoLast ==
  [type |-> "init", sid |-> "", mid |-> NoMsg, loop |-> 0, handled |-> FALSE,
   ops |-> <<>>, calls |-> <<>>, switch |-> NoSwitch, split |-> NoSplit,
   eligible |-> {}, stopped |-> FALSE, aborted |-> FALSE, snapshot |-> "",
   event |-> NoEvent, clock |-> NoClock, stale |-> {}, after |-> "",
   rebind |-> NoRebind, route |-> NoRoute, incoming |-> NoIncoming, files |-> NoFiles,
   dedup |-> NoDedup, refresh |-> NoRefresh]

LastOf(type, sid, mid, l, h) ==
  [type |-> type, sid |-> sid, mid |-> mid, loop |-> l, handled |-> h.handled,
   ops |-> h.w.ops, calls |-> h.w.calls, switch |-> h.switch, split |-> h.split,
   eligible |-> {}, stopped |-> FALSE,
   aborted |-> IF "aborted" \in DOMAIN h THEN h.aborted ELSE FALSE,
   snapshot |-> IF "snapshot" \in DOMAIN h THEN h.snapshot ELSE "",
   event |-> IF "event" \in DOMAIN h THEN h.event ELSE NoEvent,
   clock |-> IF "clock" \in DOMAIN h THEN h.clock ELSE NoClock,
   stale |-> IF "stale" \in DOMAIN h THEN h.stale ELSE {},
   after |-> IF "after" \in DOMAIN h THEN h.after ELSE "",
   rebind |-> IF "rebind" \in DOMAIN h THEN h.rebind ELSE NoRebind,
   route |-> IF "route" \in DOMAIN h THEN h.route ELSE NoRoute,
   incoming |-> NoIncoming, files |-> NoFiles,
   dedup |-> NoDedup, refresh |-> NoRefresh]

\* message ids whose current answer text has been delivered in full
ShownAfter(h) ==
  {m \in DOMAIN h.w.bufs :
     \/ /\ m \in shown
        /\ m \in DOMAIN msgBuffers
        /\ msgBuffers[m].text = h.w.bufs[m].text
     \/ \E op \in Ops(h.w) : op.ok /\ op.mid = m /\ op.text = h.w.bufs[m].text}

FaultShows(h, m) ==
  Cardinality({i \in 1..Len(h.w.ops) :
                 /\ h.w.ops[i].ok
                 /\ h.w.ops[i].mid = m
                 /\ h.w.ops[i].status \in {"error", "aborted"}})

Min(a, b) == IF a < b THEN a ELSE b

\* faulted = the message ids a fault event of this step reports
FaultOpsAfter(h, faulted) ==
  [m \in (DOMAIN faultOps) \cup faulted |->
     Min(3, (IF m \in DOMAIN faultOps THEN faultOps[m] ELSE 0) + FaultShows(h, m))]

\* platform ids of predecessors finalized by a switch without carry; an id leaves
\* the set when its message becomes the active one again
FinalizedAfter(h) ==
  IF h.switch.kind = "none" THEN finalized
  ELSE (finalized \ {msgBuffers[m].platformMsgId : m \in {h.switch.next} \cap DOMAIN msgBuffers})
         \cup (IF h.switch.kind = "finalize" /\ h.switch.prevPid # NoPlatformMsg
                 THEN {h.switch.prevPid} ELSE {})

\* message ids whose buffer was split off its execution message and for which no
\* new platform message has been sent since
SplitPendingAfter(h) ==
  (splitPending \cup (IF h.split.happened THEN {h.split.mid} ELSE {}))
    \ {m \in Msgs : \E i \in 1..Len(h.w.ops) :
                       /\ h.w.ops[i].op = "send" /\ h.w.ops[i].ok /\ h.w.ops[i].mid = m
                       /\ (h.split.happened /\ h.split.mid = m) => i > h.split.to}

LateEditAfter(h) ==
  \/ lateEdit
  \/ \E op \in Ops(h.w) : op.op = "edit" /\ op.pid \in finalized /\ op.mid # h.switch.next


\* a handler run observes a failing adapter only through the calls it makes
Observes(net, w) ==
  \E i \in 1..Len(w.ops) : net = "down" \/ w.ops[i].op = "edit"

(***************************************************************************)
(* Init: the module-level maps are empty and no listener runs.  Under Spec *)
(* every adapter call succeeds; under SpecFault up to MaxFaults handlers   *)
(* run against a failing adapter.                                          *)
(***************************************************************************)
NoLoop == [state |-> "none", retryCount |-> 0]

InitWith(budget) ==
  /\ sessionToCtx = EmptyMap
  /\ sessionToAdapterKey = EmptyMap
  /\ sessionActiveMsg = EmptyMap
  /\ msgRole = EmptyMap
  /\ msgBuffers = EmptyMap
  /\ isListenerStarted = FALSE
  /\ shouldStopListener = FALSE
  /\ loops = [l \in LoopIds |-> NoLoop]
  /\ nextId = 1
  /\ eventsLeft = MaxEvents
  /\ faultBudget = budget
  /\ last = NoLast
  /\ shown = {}
  /\ faultOps = EmptyMap
  /\ finalized = {}
  /\ lateEdit = FALSE
  /\ splitPending = {}

Init == InitWith(0)
InitFault == InitWith(MaxFaults)

registries == << sessionToCtx, sessionToAdapterKey >>
listener == << isListenerStarted, shouldStopListener, loops >>
history == << shown, faultOps, finalized, lateEdit, splitPending >>

(***************************************************************************)
(* The incoming side, as far as the event flow depends on it.              *)
(***************************************************************************)
\* incoming.flow.ts 392-394: a prompt binds its session to the chat and adapter
Bind(sid, chat, key) ==
  /\ key \in mux
  /\ ~(sid \in DOMAIN sessionToCtx /\ sid \in DOMAIN sessionToAdapterKey)
  /\ sessionToAdapterKey' = MapSet(sessionToAdapterKey, sid, key)
  /\ sessionToCtx' = MapSet(sessionToCtx, sid, chat)
  /\ last' = [NoLast EXCEPT !.type = "bind", !.sid = sid]
  /\ UNCHANGED << sessionActiveMsg, msgRole, msgBuffers, listener, nextId, eventsLeft,
                  faultBudget, history >>

\* command.ts 494-499: /sessions delete drops the registry entries of a session
DeleteSession(sid) ==
  /\ sid \in DOMAIN sessionToCtx
  /\ eventsLeft > 0
  /\ eventsLeft' = eventsLeft - 1
  /\ sessionToAdapterKey' = MapDelete(sessionToAdapterKey, sid)
  /\ sessionToCtx' = MapDelete(sessionToCtx, sid)
  /\ last' = [NoLast EXCEPT !.type = "delete", !.sid = sid]
  /\ UNCHANGED << sessionActiveMsg, msgRole, msgBuffers, listener, nextId,
                  faultBudget, history >>

(***************************************************************************)
(* The listener: command.ts 1061-1150.                                     *)
(***************************************************************************)
\* startGlobalEventListenerWithDeps; a call while started returns at once
Start(l) ==
  /\ ~isListenerStarted
  /\ loops[l].state = "none"
  /\ \A k \in LoopIds : k < l => loops[k].state # "none"
  /\ isListenerStarted' = TRUE
  /\ shouldStopListener' = FALSE
  /\ loops' = [loops EXCEPT ![l] = [state |-> "connecting", retryCount |-> 0]]
  /\ last' = [NoLast EXCEPT !.type = "start", !.loop = l]
  /\ UNCHANGED << registries, sessionActiveMsg, msgRole, msgBuffers, nextId, eventsLeft,
                  faultBudget, history >>

\* api.event.subscribe() resolves
SubscribeOk(l) ==
  /\ loops[l].state = "connecting"
  /\ loops' = [loops EXCEPT ![l] = [state |-> "streaming", retryCount |-> 0]]
  /\ last' = [NoLast EXCEPT !.type = "subscribed", !.loop = l]
  /\ UNCHANGED << registries, sessionActiveMsg, msgRole, msgBuffers, isListenerStarted,
                  shouldStopListener, nextId, eventsLeft, faultBudget, history >>

\* the sessions flushAll does not skip
Eligible ==
  {sid \in DOMAIN sessionActiveMsg :
     /\ sid \in DOMAIN sessionToCtx
     /\ sid \in DOMAIN sessionToAdapterKey
     /\ sessionToAdapterKey[sid] \in mux}

\* variant of the reconnect delay without the cap
reconnectDelay_uncapped(retryCount) == 5000 * (retryCount + 1)

\* const delay = Math.min(5000 * (retryCount + 1), 60000)
reconnectDelay(retryCount) == Min(5000 * (retryCount + 1), 60000)

SetTimeoutCall(delay) == [call |-> "setTimeout", delay |-> delay]

\* a step of loop l that runs flushAll and leaves the loop in `state`
FlushAllStep(type, l, net, state, retry) ==
  LET h == Handled(flushAll(World(msgBuffers, nextId), net), sessionActiveMsg)
  IN /\ eventsLeft > 0
     /\ eventsLeft' = eventsLeft - 1
     /\ net = "ok" \/ (faultBudget > 0 /\ Observes(net, h.w))
     /\ faultBudget' = IF net = "ok" THEN faultBudget ELSE faultBudget - 1
     /\ msgBuffers' = h.w.bufs
     /\ nextId' = h.w.nid
     /\ loops' = [loops EXCEPT ![l] = [state |-> state, retryCount |-> retry]]
     /\ last' = [LastOf(type, "", NoMsg, l, h) EXCEPT
                   !.eligible = Eligible,
                   !.stopped = shouldStopListener,
                   !.route = flushAllRoute(World(msgBuffers, nextId), net,
                                           DOMAIN sessionActiveMsg, NoRoute),
                   !.calls = IF state = "timer"
                              THEN Append(@, SetTimeoutCall(reconnectDelay(loops[l].retryCount)))
                              ELSE @]
     /\ shown' = ShownAfter(h)
     /\ faultOps' = FaultOpsAfter(h, {})
     /\ finalized' = FinalizedAfter(h)
     /\ lateEdit' = LateEditAfter(h)
     /\ splitPending' = SplitPendingAfter(h)
     /\ UNCHANGED << registries, sessionActiveMsg, msgRole, isListenerStarted,
                     shouldStopListener >>

\* the catch block: subscribe() rejected or the stream threw
Disconnect(l, net) ==
  /\ loops[l].state \in {"connecting", "streaming"}
  /\ IF shouldStopListener
       THEN /\ net = "ok"
            /\ eventsLeft > 0
            /\ eventsLeft' = eventsLeft - 1
            /\ loops' = [loops EXCEPT ![l].state = "returned"]
            /\ last' = [NoLast EXCEPT !.type = "disconnect", !.loop = l, !.stopped = TRUE]
            /\ UNCHANGED << registries, sessionActiveMsg, msgRole, msgBuffers,
                            isListenerStarted, shouldStopListener, nextId,
                            faultBudget, history >>
       ELSE /\ loops[l].retryCount < MaxRetry
            /\ FlushAllStep("disconnect", l, net, "timer", loops[l].retryCount + 1)

\* the stream iterator ends without an error: flushAll, and connect returns
StreamEnd(l, net) ==
  /\ loops[l].state = "streaming"
  /\ FlushAllStep("end", l, net, "returned", loops[l].retryCount)

\* an event arrives while shouldStopListener is set: break, flushAll, return
StreamBreak(l, net) ==
  /\ loops[l].state = "streaming"
  /\ shouldStopListener
  /\ FlushAllStep("break", l, net, "returned", loops[l].retryCount)

\* setTimeout(connect, delay) fires
TimerFire(l) ==
  /\ loops[l].state = "timer"
  /\ loops' = [loops EXCEPT ![l].state = "connecting"]
  /\ last' = [NoLast EXCEPT !.type = "timer", !.loop = l]
  /\ UNCHANGED << registries, sessionActiveMsg, msgRole, msgBuffers, isListenerStarted,
                  shouldStopListener, nextId, eventsLeft, faultBudget, history >>

\* stopGlobalEventListenerWithDeps
Stop ==
  /\ isListenerStarted
  /\ eventsLeft > 0
  /\ eventsLeft' = eventsLeft - 1
  /\ shouldStopListener' = TRUE
  /\ isListenerStarted' = FALSE
  /\ sessionToCtx' = EmptyMap
  /\ sessionActiveMsg' = EmptyMap
  /\ msgRole' = EmptyMap
  /\ msgBuffers' = EmptyMap
  /\ sessionToAdapterKey' = EmptyMap
  /\ last' = [NoLast EXCEPT !.type = "stop"]
  /\ shown' = {}
  /\ splitPending' = {}
  /\ UNCHANGED << loops, nextId, faultBudget, faultOps, finalized, lateEdit >>

\* one event of the stream, handled by loop l with outcome h
EventStep(type, sid, mid, l, net, h, faulted) ==
  /\ loops[l].state = "streaming"
  /\ ~shouldStopListener
  /\ eventsLeft > 0
  /\ net = "ok" \/ (faultBudget > 0 /\ Observes(net, h.w))
  /\ eventsLeft' = eventsLeft - 1
  /\ faultBudget' = IF net = "ok" THEN faultBudget ELSE faultBudget - 1
  /\ msgBuffers' = h.w.bufs
  /\ nextId' = h.w.nid
  /\ sessionActiveMsg' = h.active
  /\ msgRole' = h.roles
  /\ last' = LastOf(type, sid, mid, 0, h)
  /\ shown' = ShownAfter(h)
  /\ faultOps' = FaultOpsAfter(h, IF h.handled THEN faulted ELSE {})
  /\ finalized' = FinalizedAfter(h)
  /\ lateEdit' = LateEditAfter(h)
  /\ splitPending' = SplitPendingAfter(h)
  /\ UNCHANGED << registries, listener >>

\* the part handler awaits the edit that finalizes the previous message (line
\* 918); control returns to the event loop of the process until the adapter answers
PartSuspend(l, m, part, elapsed) ==
  LET sid == SessionOf(m)
      prev == sessionActiveMsg[sid]
      w0 == World(msgBuffers, nextId)
      wSwitch == flushMessage([w0 EXCEPT !.bufs = markStatus(getOrInitBuffer(@, m),
                                                             prev, "done", "")],
                              "ok", prev, TRUE)
  IN /\ loops[l].state = "streaming"
     /\ ~shouldStopListener
     /\ eventsLeft > 0
     /\ ~(m \in DOMAIN msgRole /\ msgRole[m] = "user")
     /\ resolveSessionTarget(sid)
     /\ sid \in DOMAIN sessionActiveMsg /\ prev # m
     /\ ~(prev \in DOMAIN msgBuffers
           /\ shouldCarryPlatformMessageAcrossAssistantMessages(msgBuffers[prev]))
     /\ Len(wSwitch.ops) > 0
     /\ eventsLeft' = eventsLeft - 1
     /\ msgBuffers' = wSwitch.bufs
     /\ loops' = [loops EXCEPT ![l] =
                    [state |-> "suspended", retryCount |-> @.retryCount,
                     cont |-> [mid |-> m, part |-> part, elapsed |-> elapsed]]]
     /\ last' = [NoLast EXCEPT !.type = "suspend", !.sid = sid, !.mid = m, !.loop = l,
                               !.handled = TRUE, !.ops = wSwitch.ops,
                               !.calls = wSwitch.calls]
     /\ UNCHANGED << registries, sessionActiveMsg, msgRole, isListenerStarted,
                     shouldStopListener, nextId, faultBudget, history >>

\* the adapter answers: the handler goes on at line 921 with the adapter and
\* chat it resolved before, on the maps as they are now
PartResume(l) ==
  /\ loops[l].state = "suspended"
  /\ LET c == loops[l].cont
         sid == SessionOf(c.mid)
         tail == partAfterSwitch(World(msgBuffers, nextId), c.mid, c.part, c.elapsed, "ok")
         h == [Handled(tail.w, MapSet(sessionActiveMsg, sid, c.mid))
                 EXCEPT !.split = tail.split]
     IN /\ msgBuffers' = h.w.bufs
        /\ nextId' = h.w.nid
        /\ sessionActiveMsg' = h.active
        /\ loops' = [loops EXCEPT ![l] =
                       [state |-> "streaming", retryCount |-> @.retryCount]]
        /\ last' = [LastOf("resume", sid, c.mid, l, h) EXCEPT
                      !.stopped = shouldStopListener]
        /\ shown' = ShownAfter(h)
        /\ faultOps' = FaultOpsAfter(h, {})
        /\ finalized' = FinalizedAfter(h)
        /\ lateEdit' = LateEditAfter(h)
        /\ splitPending' = SplitPendingAfter(h)
        /\ UNCHANGED << registries, msgRole, isListenerStarted, shouldStopListener,
                        eventsLeft, faultBudget >>

\* adapter.sendMessage at line 974 rejects instead of returning null: the
\* exception leaves the handler and the stream loop and is caught at line 1119
PartThrows(l, m, part, elapsed) ==
  LET sid == SessionOf(m)
      h == handleMessagePartUpdatedEvent(sid, m, part, elapsed, "down")
      hc == Handled(flushAll([h.w EXCEPT !.ops = <<>>, !.calls = <<>>], "ok"),
                    sessionActiveMsg)
  IN /\ loops[l].state = "streaming"
     /\ ~shouldStopListener
     /\ eventsLeft > 0
     /\ h.handled
     /\ h.active = sessionActiveMsg
     /\ Len(h.w.ops) = 1 /\ h.w.ops[1].op = "send"
     /\ eventsLeft' = eventsLeft - 1
     /\ msgBuffers' = hc.w.bufs
     /\ nextId' = hc.w.nid
     /\ loops' = [loops EXCEPT ![l] = [state |-> "timer",
                                       retryCount |-> @.retryCount + 1]]
     /\ last' = [LastOf("message.part.updated", sid, m, l, h) EXCEPT
                   !.ops = h.w.ops \o hc.w.ops,
                   !.calls = Append(hc.w.calls,
                                    SetTimeoutCall(reconnectDelay(loops[l].retryCount))),
                   !.eligible = Eligible]
     /\ shown' = ShownAfter(hc)
     /\ faultOps' = FaultOpsAfter(hc, {})
     /\ finalized' = FinalizedAfter(h)
     /\ lateEdit' = LateEditAfter(hc)
     /\ splitPending' = SplitPendingAfter(h)
     /\ UNCHANGED << registries, sessionActiveMsg, msgRole, isListenerStarted,
                     shouldStopListener, faultBudget >>

MessageUpdated(l, info, net) ==
  EventStep("message.updated", info.sessionID, info.id, l, net,
            handleMessageUpdatedEvent(info, net),
            IF info.error # NoError THEN {info.id} ELSE {})

MessagePartUpdated(l, m, part, elapsed, net) ==
  EventStep("message.part.updated", SessionOf(m), m, l, net,
            [snapshot |-> IF part.type \in {"text", "reasoning"} /\ ~part.isDelta
                            THEN part.type ELSE ""]
              @@ handleMessagePartUpdatedEvent(SessionOf(m), m, part, elapsed, net), {})

SessionError(l, sid, err, net) ==
  EventStep("session.error", sid,
            IF sid \in DOMAIN sessionActiveMsg THEN sessionActiveMsg[sid] ELSE NoMsg, l, net,
            [aborted |-> isAbortedError(err)] @@ handleSessionErrorEvent(sid, err, net),
            IF sid \in DOMAIN sessionActiveMsg THEN {sessionActiveMsg[sid]} ELSE {})

SessionIdle(l, sid, net) ==
  EventStep("session.idle", sid,
            IF sid \in DOMAIN sessionActiveMsg THEN sessionActiveMsg[sid] ELSE NoMsg, l, net,
            handleSessionIdleEvent(sid, net), {})

CommandExecuted(l, m) ==
  EventStep("command.executed", SessionOf(m), m, l, "ok", handleCommandExecutedEvent(m), {})

Next ==
  \/ \E sid \in Sessions, chat \in Chats, key \in AdapterKeys : Bind(sid, chat, key)
  \/ \E sid \in Sessions : DeleteSession(sid)
  \/ \E l \in LoopIds : Start(l)
  \/ \E l \in LoopIds : SubscribeOk(l)
  \/ \E l \in LoopIds, net \in NetModes : Disconnect(l, net)
  \/ \E l \in LoopIds, net \in NetModes : StreamEnd(l, net)
  \/ \E l \in LoopIds, net \in NetModes : StreamBreak(l, net)
  \/ \E l \in LoopIds : TimerFire(l)
  \/ Stop
  \/ \E l \in LoopIds, info \in Infos, net \in NetModes : MessageUpdated(l, info, net)
  \/ \E l \in LoopIds, m \in Msgs, elapsed \in BOOLEAN, net \in NetModes :
       \E part \in Parts(m) : MessagePartUpdated(l, m, part, elapsed, net)
  \/ \E l \in LoopIds, sid \in Sessions, err \in Errors, net \in NetModes :
       SessionError(l, sid, err, net)
  \/ \E l \in LoopIds, sid \in Sessions, net \in NetModes : SessionIdle(l, sid, net)
  \/ \E l \in LoopIds, m \in Msgs : CommandExecuted(l, m)

Spec == Init /\ [][Next]_vars
SpecFault == InitFault /\ [][Next]_vars

(***************************************************************************)
(* SpecCarry: the switch decision over every prev buffer.  Session s1 is   *)
(* bound, its listener streams, its active message m1 has a buffer drawn   *)
(* from PrevBuffers, and one more part event arrives.                      *)
(***************************************************************************)
PrevTexts == {EmptyStr, Space, Char, Str(1, 1, 1), Str(0, 2, 0), LongText}
PrevReasonings == {EmptyStr, Space, Char}
PrevTools == {NoTools} \cup {[c \in CallIds |-> st] : st \in ToolStates}
\* a status note is written together with a terminal status
PrevNotes(status) ==
  CASE status = "streaming" -> {""}
    [] status = "done" -> {"", "tool-calls", "stop", "idle"}
    [] status = "error" -> {"api error", "Tool calls failed"}
    [] status = "aborted" -> {"aborted"}

PrevBuffers ==
  {[NewBuffer EXCEPT !.text = t, !.reasoning = r, !.tools = tl, !.status = sn[1],
                     !.statusNote = sn[2], !.platformMsgId = pid,
                     !.lastUpdateTime = IF pid = NoPlatformMsg THEN 0 ELSE 1] :
     t \in PrevTexts, r \in PrevReasonings, tl \in PrevTools,
     sn \in {<<st, n>> : st \in {"streaming", "done", "error", "aborted"},
                         n \in {"", "tool-calls", "stop", "idle", "api error",
                                "Tool calls failed", "aborted"}},
     pid \in {NoPlatformMsg, 1}}

InitCarry ==
  /\ sessionToCtx = [sid \in {"s1"} |-> "chatA"]
  /\ sessionToAdapterKey = [sid \in {"s1"} |-> "lark-bridge"]
  /\ sessionActiveMsg = [sid \in {"s1"} |-> "m1"]
  /\ msgRole = [m \in {"m1"} |-> "assistant"]
  /\ \E b \in {x \in PrevBuffers : x.statusNote \in PrevNotes(x.status)} :
       msgBuffers = [m \in {"m1"} |-> b]
  /\ isListenerStarted = TRUE
  /\ shouldStopListener = FALSE
  /\ loops = [l \in LoopIds |-> IF l = 1 THEN [state |-> "streaming", retryCount |-> 0]
                                         ELSE NoLoop]
  /\ nextId = 2
  /\ eventsLeft = 1
  /\ faultBudget = 0
  /\ last = NoLast
  /\ shown = {}
  /\ faultOps = EmptyMap
  /\ finalized = {}
  /\ lateEdit = FALSE
  /\ splitPending = {}

NextCarry ==
  \E l \in LoopIds, m \in RichMsgs, elapsed \in BOOLEAN :
    \E part \in Parts(m) : MessagePartUpdated(l, m, part, elapsed, "ok")

SpecCarry == InitCarry /\ [][NextCarry]_vars

(***************************************************************************)
(* SpecTurn: the turns of one session.  Session s1 is bound and the        *)
(* listener streams (the state after Bind, Start and SubscribeOk); the     *)
(* backend sends parts of the messages of s1 and session.idle.             *)
(***************************************************************************)
InitTurn ==
  /\ sessionToCtx = [sid \in {"s1"} |-> "chatA"]
  /\ sessionToAdapterKey = [sid \in {"s1"} |-> "lark-bridge"]
  /\ sessionActiveMsg = EmptyMap
  /\ msgRole = EmptyMap
  /\ msgBuffers = EmptyMap
  /\ isListenerStarted = TRUE
  /\ shouldStopListener = FALSE
  /\ loops = [l \in LoopIds |-> IF l = 1 THEN [state |-> "streaming", retryCount |-> 0]
                                         ELSE NoLoop]
  /\ nextId = 1
  /\ eventsLeft = MaxTurnEvents
  /\ faultBudget = 0
  /\ last = NoLast
  /\ shown = {}
  /\ faultOps = EmptyMap
  /\ finalized = {}
  /\ lateEdit = FALSE
  /\ splitPending = {}

NextTurn ==
  \/ \E l \in LoopIds, m \in RichMsgs, elapsed \in BOOLEAN :
       \E part \in Parts(m) : MessagePartUpdated(l, m, part, elapsed, "ok")
  \/ \E l \in LoopIds : SessionIdle(l, "s1", "ok")

SpecTurn == InitTurn /\ [][NextTurn]_vars

(***************************************************************************)
(* SpecReconnect: the connect closure of one listener against a backend    *)
(* that refuses or drops the subscription up to MaxRetry + 2 times.        *)
(***************************************************************************)
InitReconnect ==
  /\ sessionToCtx = [sid \in {"s1"} |-> "chatA"]
  /\ sessionToAdapterKey = [sid \in {"s1"} |-> "lark-bridge"]
  /\ sessionActiveMsg = EmptyMap
  /\ msgRole = EmptyMap
  /\ msgBuffers = EmptyMap
  /\ isListenerStarted = TRUE
  /\ shouldStopListener = FALSE
  /\ loops = [l \in LoopIds |-> IF l = 1 THEN [state |-> "connecting", retryCount |-> 0]
                                         ELSE NoLoop]
  /\ nextId = 1
  /\ eventsLeft = MaxRetry + 2
  /\ faultBudget = 0
  /\ last = NoLast
  /\ shown = {}
  /\ faultOps = EmptyMap
  /\ finalized = {}
  /\ lateEdit = FALSE
  /\ splitPending = {}

NextReconnect ==
  \/ \E l \in LoopIds : SubscribeOk(l)
  \/ \E l \in LoopIds : Disconnect(l, "ok")
  \/ \E l \in LoopIds : TimerFire(l)

SpecReconnect == InitReconnect /\ [][NextReconnect]_vars

(***************************************************************************)
(* SpecParts: the turns of one session whose part events come in both      *)
(* shapes, with a delta or with the full value only.                       *)
(***************************************************************************)
SnapshotParts ==
  {Part("text", FALSE, v, "", "", "") : v \in TextDeltas}
    \cup {Part("reasoning", FALSE, v, "", "", "") : v \in ReasoningDeltas}

NextParts ==
  \E l \in LoopIds, m \in RichMsgs, elapsed \in BOOLEAN :
    \E part \in Parts(m) \cup SnapshotParts :
      MessagePartUpdated(l, m, part, elapsed, "ok")

SpecParts == InitTurn /\ [][NextParts]_vars

(***************************************************************************)
(* SpecTime: the parts of one session with the time of each event.  The    *)
(* handler writes Date.now() into lastUpdateTime (line 959); Stamp puts    *)
(* the time of the step where the handler operators write the tick 1.      *)
(***************************************************************************)
Gaps == {0, UPDATE_INTERVAL - TELEGRAM_UPDATE_INTERVAL, UPDATE_INTERVAL}

Stamp(bufs, now) ==
  [x \in DOMAIN bufs |->
     IF bufs[x].lastUpdateTime = 1 THEN [bufs[x] EXCEPT !.lastUpdateTime = now]
                                   ELSE bufs[x]]

\* the operations issued by lines 947-993 of a part handler, which follow those
\* of the switch (lines 905-919) and of the split (lines 934-940)
FlushOps(ops, switch, split) ==
  LET from == IF split.happened THEN split.to ELSE switch.nops
  IN {ops[i] : i \in (from + 1)..Len(ops)}

PartAt(l, m, part, gap) ==
  LET sid == SessionOf(m)
      now == last.clock.now + gap
      buffer == getOrInitBuffer(msgBuffers, m)[m]
      elapsed == shouldFlushNowAt(buffer, now, sessionToAdapterKey[sid])
      h == handleMessagePartUpdatedEvent(sid, m, part, elapsed, "ok")
      delivered == FlushOps(h.w.ops, h.switch, h.split) # {}
      again == delivered /\ m \in DOMAIN last.clock.sentAt
      clock == [now |-> now,
                sentAt |-> IF delivered THEN MapSet(last.clock.sentAt, m, now)
                                        ELSE last.clock.sentAt,
                again |-> again,
                since |-> IF again THEN now - last.clock.sentAt[m] ELSE 0]
  IN /\ sid \in DOMAIN sessionToAdapterKey
     /\ EventStep("message.part.updated", sid, m, l, "ok",
                  [clock |-> clock] @@ [h EXCEPT !.w.bufs = Stamp(@, now)], {})

IdleAt(l, sid, gap) ==
  LET now == last.clock.now + gap
      h == handleSessionIdleEvent(sid, "ok")
  IN EventStep("session.idle", sid,
               IF sid \in DOMAIN sessionActiveMsg THEN sessionActiveMsg[sid] ELSE NoMsg,
               l, "ok",
               [clock |-> [last.clock EXCEPT !.now = now, !.again = FALSE, !.since = 0]]
                 @@ [h EXCEPT !.w.bufs = Stamp(@, now)], {})

InitTime ==
  /\ sessionToCtx = [sid \in {"s1"} |-> "chatA"]
  /\ sessionToAdapterKey = [sid \in {"s1"} |-> "lark-bridge"]
  /\ sessionActiveMsg = EmptyMap
  /\ msgRole = EmptyMap
  /\ msgBuffers = EmptyMap
  /\ isListenerStarted = TRUE
  /\ shouldStopListener = FALSE
  /\ loops = [l \in LoopIds |-> IF l = 1 THEN [state |-> "streaming", retryCount |-> 0]
                                         ELSE NoLoop]
  /\ nextId = 1
  /\ eventsLeft = MaxEvents
  /\ faultBudget = 0
  /\ last = [NoLast EXCEPT !.clock.now = UPDATE_INTERVAL]
  /\ shown = {}
  /\ faultOps = EmptyMap
  /\ finalized = {}
  /\ lateEdit = FALSE
  /\ splitPending = {}

NextTime ==
  \/ \E l \in LoopIds, m \in RichMsgs, gap \in Gaps :
       \E part \in Parts(m) : PartAt(l, m, part, gap)
  \/ \E l \in LoopIds, gap \in Gaps : IdleAt(l, "s1", gap)

SpecTime == InitTime /\ [][NextTime]_vars

(***************************************************************************)
(* SpecThrow: one session whose adapter may reject a send.                 *)
(***************************************************************************)
InitThrow ==
  /\ sessionToCtx = [sid \in {"s1"} |-> "chatA"]
  /\ sessionToAdapterKey = [sid \in {"s1"} |-> "lark-bridge"]
  /\ sessionActiveMsg = EmptyMap
  /\ msgRole = EmptyMap
  /\ msgBuffers = EmptyMap
  /\ isListenerStarted = TRUE
  /\ shouldStopListener = FALSE
  /\ loops = [l \in LoopIds |-> IF l = 1 THEN [state |-> "streaming", retryCount |-> 0]
                                         ELSE NoLoop]
  /\ nextId = 1
  /\ eventsLeft = MaxEvents
  /\ faultBudget = 0
  /\ last = NoLast
  /\ shown = {}
  /\ faultOps = EmptyMap
  /\ finalized = {}
  /\ lateEdit = FALSE
  /\ splitPending = {}

NextThrow ==
  \/ \E l \in LoopIds, info \in Infos : MessageUpdated(l, info, "ok")
  \/ \E l \in LoopIds, m \in RichMsgs, elapsed \in BOOLEAN :
       \E part \in Parts(m) : MessagePartUpdated(l, m, part, elapsed, "ok")
  \/ \E l \in LoopIds, m \in RichMsgs, elapsed \in BOOLEAN :
       \E part \in Parts(m) : PartThrows(l, m, part, elapsed)
  \/ \E l \in LoopIds : TimerFire(l)
  \/ \E l \in LoopIds : SubscribeOk(l)

SpecThrow == InitThrow /\ [][NextThrow]_vars

(***************************************************************************)
(* SpecTwice: the events of one session under at-least-once delivery: the  *)
(* step records the event it handled, so that a redelivery can be told.    *)
(***************************************************************************)
Delivered(ev, h) == [event |-> ev] @@ h

NextTwice ==
  \/ \E l \in LoopIds, info \in Infos :
       /\ info.id \in RichMsgs
       /\ EventStep("message.updated", info.sessionID, info.id, l, "ok",
                    Delivered(Event("message.updated", info.sessionID, info.id, NoPart,
                                    info, NoError),
                              handleMessageUpdatedEvent(info, "ok")),
                    IF info.error # NoError THEN {info.id} ELSE {})
  \/ \E l \in LoopIds, m \in RichMsgs, elapsed \in BOOLEAN :
       \E part \in Parts(m) :
         EventStep("message.part.updated", SessionOf(m), m, l, "ok",
                   Delivered(Event("message.part.updated", SessionOf(m), m, part, NoInfo,
                                   NoError),
                             handleMessagePartUpdatedEvent(SessionOf(m), m, part, elapsed,
                                                           "ok")), {})
  \/ \E l \in LoopIds, err \in Errors :
       EventStep("session.error", "s1",
                 IF "s1" \in DOMAIN sessionActiveMsg THEN sessionActiveMsg["s1"] ELSE NoMsg,
                 l, "ok",
                 Delivered(Event("session.error", "s1", NoMsg, NoPart, NoInfo, err),
                           handleSessionErrorEvent("s1", err, "ok")),
                 IF "s1" \in DOMAIN sessionActiveMsg THEN {sessionActiveMsg["s1"]} ELSE {})
  \/ \E l \in LoopIds :
       EventStep("session.idle", "s1",
                 IF "s1" \in DOMAIN sessionActiveMsg THEN sessionActiveMsg["s1"] ELSE NoMsg,
                 l, "ok",
                 Delivered(Event("session.idle", "s1", NoMsg, NoPart, NoInfo, NoError),
                           handleSessionIdleEvent("s1", "ok")), {})
  \/ \E l \in LoopIds, m \in RichMsgs :
       EventStep("command.executed", SessionOf(m), m, l, "ok",
                 Delivered(Event("command.executed", SessionOf(m), m, NoPart, NoInfo,
                                 NoError),
                           handleCommandExecutedEvent(m)), {})

SpecTwice == InitThrow /\ [][NextTwice]_vars

(***************************************************************************)
(* SpecClassify: message.updated events of one message with every shape of *)
(* error descriptor (with and without a message, with and without a name), *)
(* of finish marker and of completion time, between its parts.             *)
(***************************************************************************)
ClassifiedErrors ==
  {[name |-> n, message |-> msg] : n \in ErrorNames, msg \in {"", "boom"}}
    \cup {[name |-> "", message |-> "boom"]}
    \cup {[name |-> "", message |-> "", anonymous |-> TRUE]}

ClassifiedInfos ==
  {[id |-> "m1", sessionID |-> "s1", role |-> "assistant", error |-> e,
    finish |-> "", completed |-> FALSE] : e \in ClassifiedErrors}
    \cup {[id |-> "m1", sessionID |-> "s1", role |-> "assistant", error |-> NoError,
           finish |-> f, completed |-> c] : f \in {"", "stop"}, c \in BOOLEAN}

NextClassify ==
  \/ \E l \in LoopIds, info \in ClassifiedInfos :
       EventStep("message.updated", info.sessionID, info.id, l, "ok",
                 Delivered(Event("message.updated", info.sessionID, info.id, NoPart,
                                 info, NoError),
                           handleMessageUpdatedEvent(info, "ok")),
                 IF info.error # NoError THEN {info.id} ELSE {})
  \/ \E l \in LoopIds, elapsed \in BOOLEAN, part \in Parts("m1") :
       EventStep("message.part.updated", "s1", "m1", l, "ok",
                 Delivered(Event("message.part.updated", "s1", "m1", part, NoInfo, NoError),
                           handleMessagePartUpdatedEvent("s1", "m1", part, elapsed, "ok")),
                 {})

SpecClassify == InitThrow /\ [][NextClassify]_vars

(***************************************************************************)
(* SpecReset: one chat that resets the bridge (/reset, /restart) and binds  *)
(* a session again (/sessions <id>) between the events of session s1.      *)
(* last.stale holds the platform message ids the buffers had at the reset. *)
(***************************************************************************)
PlatformMsgIds(bufs) ==
  {bufs[m].platformMsgId : m \in DOMAIN bufs} \ {NoPlatformMsg}

\* command.ts 643-670: /restart clears the registries of the command context and
\* creates a session; created = "" stands for a failed api.session.create
Restart(chat, key, created) ==
  /\ eventsLeft > 0
  /\ eventsLeft' = eventsLeft - 1
  /\ sessionToAdapterKey' = IF created = "" THEN EmptyMap ELSE [sid \in {created} |-> key]
  /\ sessionToCtx' = IF created = "" THEN EmptyMap ELSE [sid \in {created} |-> chat]
  /\ last' = [NoLast EXCEPT !.type = "restart", !.sid = created,
                            !.stale = PlatformMsgIds(msgBuffers)]
  /\ UNCHANGED << sessionActiveMsg, msgRole, msgBuffers, listener, nextId,
                  faultBudget, history >>

\* command.ts 536-556: /sessions <id|index> binds the chat to the session named
Rebind(sid, chat, key) ==
  /\ key \in mux
  /\ ~(sid \in DOMAIN sessionToCtx /\ sid \in DOMAIN sessionToAdapterKey)
  /\ sessionToAdapterKey' = MapSet(sessionToAdapterKey, sid, key)
  /\ sessionToCtx' = MapSet(sessionToCtx, sid, chat)
  /\ last' = [NoLast EXCEPT !.type = "rebind", !.sid = sid, !.stale = last.stale]
  /\ UNCHANGED << sessionActiveMsg, msgRole, msgBuffers, listener, nextId, eventsLeft,
                  faultBudget, history >>

AfterReset(h) == [stale |-> last.stale] @@ h

NextReset ==
  \/ \E l \in LoopIds, info \in Infos :
       /\ info.id \in RichMsgs
       /\ EventStep("message.updated", info.sessionID, info.id, l, "ok",
                    AfterReset(handleMessageUpdatedEvent(info, "ok")),
                    IF info.error # NoError THEN {info.id} ELSE {})
  \/ \E l \in LoopIds, m \in RichMsgs, elapsed \in BOOLEAN :
       \E part \in Parts(m) :
         EventStep("message.part.updated", SessionOf(m), m, l, "ok",
                   AfterReset(handleMessagePartUpdatedEvent(SessionOf(m), m, part, elapsed,
                                                            "ok")), {})
  \/ \E chat \in Chats, key \in AdapterKeys, created \in {"s2", ""} :
       Restart(chat, key, created)
  \/ \E chat \in Chats, key \in AdapterKeys : Rebind("s1", chat, key)

SpecReset == InitThrow /\ [][NextReset]_vars

(***************************************************************************)
(* SpecResume: the parts of session s1 on a stream that disconnects and is *)
(* subscribed again, with an adapter that may fail.  last.after is the     *)
(* type of the step before a part, last.event the part.                    *)
(***************************************************************************)
PartOnStream(l, m, part, elapsed, net) ==
  EventStep("message.part.updated", SessionOf(m), m, l, net,
            [after |-> last.type]
              @@ Delivered(Event("message.part.updated", SessionOf(m), m, part, NoInfo,
                                 NoError),
                           handleMessagePartUpdatedEvent(SessionOf(m), m, part, elapsed, net)),
            {})

InitResume ==
  /\ sessionToCtx = [sid \in {"s1"} |-> "chatA"]
  /\ sessionToAdapterKey = [sid \in {"s1"} |-> "lark-bridge"]
  /\ sessionActiveMsg = EmptyMap
  /\ msgRole = EmptyMap
  /\ msgBuffers = EmptyMap
  /\ isListenerStarted = TRUE
  /\ shouldStopListener = FALSE
  /\ loops = [l \in LoopIds |-> IF l = 1 THEN [state |-> "streaming", retryCount |-> 0]
                                         ELSE NoLoop]
  /\ nextId = 1
  /\ eventsLeft = MaxEvents
  /\ faultBudget = MaxFaults
  /\ last = NoLast
  /\ shown = {}
  /\ faultOps = EmptyMap
  /\ finalized = {}
  /\ lateEdit = FALSE
  /\ splitPending = {}

NextResume ==
  \/ \E l \in LoopIds, m \in RichMsgs, elapsed \in BOOLEAN, net \in NetModes :
       \E part \in Parts(m) : PartOnStream(l, m, part, elapsed, net)
  \/ \E l \in LoopIds, net \in NetModes : Disconnect(l, net)
  \/ \E l \in LoopIds : TimerFire(l)
  \/ \E l \in LoopIds : SubscribeOk(l)

SpecResume == InitResume /\ [][NextResume]_vars

(***************************************************************************)
(* SpecRebind: two chats of one adapter that send prompts, /new,           *)
(* /sessions <id> and /restart.  The registries are the variables          *)
(* sessionToCtx and sessionToAdapterKey; sessionCache is last.rebind.      *)
(* sessionCache.  A created session is one no map refers to; "" stands for *)
(* a failed api.session.create.                                            *)
(***************************************************************************)
RebindChats == {"chatA", "chatB"}

CacheKey(key, chat) == << key, chat >>

\* the three maps a command or a prompt works on
Maps(cache, keys, ctx) == [sessionCache |-> cache, keys |-> keys, ctx |-> ctx, sid |-> ""]

CurrentMaps == Maps(last.rebind.sessionCache, sessionToAdapterKey, sessionToCtx)

Creatable ==
  {sid \in Sessions :
     /\ sid \notin DOMAIN sessionToCtx
     /\ sid \notin DOMAIN sessionToAdapterKey
     /\ \A ck \in DOMAIN last.rebind.sessionCache : last.rebind.sessionCache[ck] # sid}
    \cup {""}

\* incoming.flow.ts 162-180
createNewSession(maps, chat, key, created) ==
  IF created # ""
    THEN [sessionCache |-> MapSet(maps.sessionCache, CacheKey(key, chat), created),
          keys |-> MapSet(maps.keys, created, key),
          ctx |-> MapSet(maps.ctx, created, chat),
          sid |-> created]
    ELSE [maps EXCEPT !.sid = ""]

\* variant of ensureSession that does not look into sessionCache
ensureSession_alwaysNew(maps, chat, key, created) ==
  createNewSession(maps, chat, key, created)

\* incoming.flow.ts 182-189; sid = "" stands for the throw 'Failed to init Session'
ensureSession(maps, chat, key, created) ==
  IF CacheKey(key, chat) \in DOMAIN maps.sessionCache
    THEN [maps EXCEPT !.sid = maps.sessionCache[CacheKey(key, chat)]]
    ELSE createNewSession(maps, chat, key, created)

\* the step of a chat that leaves the maps as `maps`
IncomingStep(type, chat, maps, sent, bound) ==
  /\ sessionToAdapterKey' = maps.keys
  /\ sessionToCtx' = maps.ctx
  /\ last' = [NoLast EXCEPT !.type = type, !.sid = maps.sid,
                            !.rebind = [NoRebind EXCEPT
                                          !.sessionCache = maps.sessionCache,
                                          !.chat = chat, !.sent = sent, !.bound = bound]]
  /\ UNCHANGED << sessionActiveMsg, msgRole, msgBuffers, listener, nextId, eventsLeft,
                  faultBudget, history >>

\* incoming.flow.ts 392-422: a prompt is sent to the session of ensureSession
Prompt(chat, key, created) ==
  LET ensured == ensureSession(CurrentMaps, chat, key, created)
      maps == [ensured EXCEPT !.keys = MapSet(@, ensured.sid, key),
                              !.ctx = MapSet(@, ensured.sid, chat)]
  IN /\ key \in mux
     /\ ensured.sid # ""
     /\ IncomingStep("prompt", chat, maps, ensured.sid, last.rebind.bound)

\* command.ts 536-556: /sessions <id|index> with a session the list names
SessionsCommand(chat, key, targetId) ==
  LET maps == [sessionCache |-> MapSet(last.rebind.sessionCache, CacheKey(key, chat), targetId),
               keys |-> MapSet(sessionToAdapterKey, targetId, key),
               ctx |-> MapSet(sessionToCtx, targetId, chat),
               sid |-> targetId]
  IN /\ key \in mux
     /\ IncomingStep("sessions", chat, maps, "",
                     MapSet(last.rebind.bound, chat, targetId))

\* command.ts 628-641: /new
NewCommand(chat, key, created) ==
  LET maps == createNewSession(CurrentMaps, chat, key, created)
  IN /\ key \in mux
     /\ IncomingStep("new", chat, maps, "",
                     IF maps.sid # "" THEN MapSet(last.rebind.bound, chat, maps.sid)
                                      ELSE last.rebind.bound)

\* command.ts 643-670: /restart clears the three maps and creates a session
RestartCommand(chat, key, created) ==
  LET maps == createNewSession(Maps(EmptyMap, EmptyMap, EmptyMap), chat, key, created)
  IN /\ key \in mux
     /\ IncomingStep("restart", chat, maps, "", EmptyMap)

NextRebind ==
  \/ \E chat \in RebindChats, key \in AdapterKeys, created \in Creatable :
       Prompt(chat, key, created)
  \/ \E chat \in RebindChats, key \in AdapterKeys, targetId \in Sessions :
       SessionsCommand(chat, key, targetId)
  \/ \E chat \in RebindChats, key \in AdapterKeys, created \in Creatable :
       NewCommand(chat, key, created)
  \/ \E chat \in RebindChats, key \in AdapterKeys, created \in Creatable :
       RestartCommand(chat, key, created)

SpecRebind == Init /\ [][NextRebind]_vars

(***************************************************************************)
(* SpecDelete: the chats of SpecRebind, which also delete sessions with     *)
(* /sessions delete all and /sessions delete <refs>.                        *)
(***************************************************************************)
\* api.session.list: the sessions of the backend, in its order
SessionLists == {<< >>, << "s1" >>, << "s2" >>, << "s1", "s2" >>, << "s2", "s1" >>}

\* a ref of /sessions delete <refs>: an index into the list (digits) or an id
IndexRef(n) == [digits |-> TRUE, n |-> n, id |-> ""]
IdRef(id) == [digits |-> FALSE, n |-> 0, id |-> id]
Refs == {IndexRef(n) : n \in 1..3} \cup {IdRef(id) : id \in Sessions \cup {"s9"}}

\* parseSessionDeleteArgs: "all", or the refs named
DeleteArgs ==
  {[deleteAll |-> TRUE, refs |-> {}]}
    \cup {[deleteAll |-> FALSE, refs |-> rs] : rs \in {r \in SUBSET Refs :
                                                         Cardinality(r) \in 1..2}}

Ids(sessions) == {sessions[i] : i \in 1..Len(sessions)}

\* command.ts 94-106
resolveSessionRefs(refs, sessions) ==
  {sessions[r.n] : r \in {x \in refs : x.digits /\ x.n - 1 >= 0 /\ x.n - 1 < Len(sessions)}}
    \cup {r.id : r \in {x \in refs : ~x.digits /\ x.id \in Ids(sessions)}}

\* variant of deleteTargets that does not filter the current session out
deleteTargets_unfiltered(del, sessions, currentSessionId) ==
  IF del.deleteAll THEN Ids(sessions) ELSE resolveSessionRefs(del.refs, sessions)

\* command.ts 483-486
deleteTargets(del, sessions, currentSessionId) ==
  IF del.deleteAll
    THEN {id \in Ids(sessions) : id # currentSessionId}
    ELSE {id \in resolveSessionRefs(del.refs, sessions) : id # currentSessionId}

\* command.ts 472-515: /sessions delete; failed = the targets whose
\* api.session.delete throws.  An empty list, a failed ensureSession and an
\* empty target set end the command before anything is deleted.
SessionsDelete(chat, key, del, sessions, created, failed) ==
  LET ensured == ensureSession(CurrentMaps, chat, key, created)
      currentSessionId == ensured.sid
      targets == deleteTargets(del, sessions, currentSessionId)
      deleted == targets \ failed
      maps == [ensured EXCEPT
                 !.keys = [sid \in (DOMAIN ensured.keys) \ deleted |-> ensured.keys[sid]],
                 !.ctx = [sid \in (DOMAIN ensured.ctx) \ deleted |-> ensured.ctx[sid]]]
  IN /\ key \in mux
     /\ failed \subseteq Ids(sessions)
     /\ sessions # << >>
     /\ currentSessionId # ""
     /\ sessionToAdapterKey' = maps.keys
     /\ sessionToCtx' = maps.ctx
     /\ last' = [NoLast EXCEPT !.type = "sessions-delete", !.sid = currentSessionId,
                               !.rebind = [NoRebind EXCEPT
                                             !.sessionCache = maps.sessionCache,
                                             !.chat = chat, !.key = key,
                                             !.bound = last.rebind.bound,
                                             !.targets = targets]]
     /\ UNCHANGED << sessionActiveMsg, msgRole, msgBuffers, listener, nextId, eventsLeft,
                     faultBudget, history >>

NextDelete ==
  \/ \E chat \in RebindChats, key \in AdapterKeys, created \in Creatable :
       Prompt(chat, key, created)
  \/ \E chat \in RebindChats, key \in AdapterKeys, targetId \in Sessions :
       SessionsCommand(chat, key, targetId)
  \/ \E chat \in RebindChats, key \in AdapterKeys, created \in Creatable :
       NewCommand(chat, key, created)
  \/ \E chat \in RebindChats, key \in AdapterKeys, created \in Creatable,
        del \in DeleteArgs, sessions \in SessionLists :
       \E failed \in SUBSET Ids(sessions) : SessionsDelete(chat, key, del, sessions, created, failed)

SpecDelete == Init /\ [][NextDelete]_vars

(***************************************************************************)
(* SpecMux: two sessions bound to different adapters and chats, whose       *)
(* events interleave on one stream; a prompt may bind a session to another  *)
(* chat or adapter.  last.route holds, call by call, the adapter key and    *)
(* chat id the handler passed to the adapter call.                          *)
(***************************************************************************)
\* every event handler resolves its target once and passes target.adapter and
\* target.ctx.chatId to each flush, send and edit it makes
Routed(sid, h) ==
  [route |-> [i \in 1..Len(h.w.ops) |-> resolvedTarget(sid)]] @@ h

\* incoming.flow.ts 392-394: a prompt binds its session to the chat and adapter
PromptBinds(sid, chat, key) ==
  /\ key \in mux
  /\ sessionToAdapterKey' = MapSet(sessionToAdapterKey, sid, key)
  /\ sessionToCtx' = MapSet(sessionToCtx, sid, chat)
  /\ << sessionToAdapterKey', sessionToCtx' >> # << sessionToAdapterKey, sessionToCtx >>
  /\ last' = [NoLast EXCEPT !.type = "bind", !.sid = sid]
  /\ UNCHANGED << sessionActiveMsg, msgRole, msgBuffers, listener, nextId, eventsLeft,
                  faultBudget, history >>

InitMux ==
  /\ sessionToCtx = [sid \in Sessions |-> IF sid = "s1" THEN "chatA" ELSE "chatB"]
  /\ sessionToAdapterKey = [sid \in Sessions |-> IF sid = "s1" THEN "lark-bridge"
                                                               ELSE "telegram-bridge"]
  /\ sessionActiveMsg = EmptyMap
  /\ msgRole = EmptyMap
  /\ msgBuffers = EmptyMap
  /\ isListenerStarted = TRUE
  /\ shouldStopListener = FALSE
  /\ loops = [l \in LoopIds |-> IF l = 1 THEN [state |-> "streaming", retryCount |-> 0]
                                         ELSE NoLoop]
  /\ nextId = 1
  /\ eventsLeft = MaxEvents
  /\ faultBudget = 0
  /\ last = NoLast
  /\ shown = {}
  /\ faultOps = EmptyMap
  /\ finalized = {}
  /\ lateEdit = FALSE
  /\ splitPending = {}

MuxParts(m) ==
  {part \in Parts(m) : part.type \in {"text", "step-finish"} /\ part.value # LongText}

NextMux ==
  \/ \E l \in LoopIds, m \in Msgs, elapsed \in BOOLEAN :
       \E part \in MuxParts(m) :
         EventStep("message.part.updated", SessionOf(m), m, l, "ok",
                   Routed(SessionOf(m),
                          handleMessagePartUpdatedEvent(SessionOf(m), m, part, elapsed,
                                                        "ok")), {})
  \/ \E l \in LoopIds, sid \in Sessions, err \in Errors :
       EventStep("session.error", sid,
                 IF sid \in DOMAIN sessionActiveMsg THEN sessionActiveMsg[sid] ELSE NoMsg,
                 l, "ok", Routed(sid, handleSessionErrorEvent(sid, err, "ok")),
                 IF sid \in DOMAIN sessionActiveMsg THEN {sessionActiveMsg[sid]} ELSE {})
  \/ \E l \in LoopIds, sid \in Sessions :
       EventStep("session.idle", sid,
                 IF sid \in DOMAIN sessionActiveMsg THEN sessionActiveMsg[sid] ELSE NoMsg,
                 l, "ok", Routed(sid, handleSessionIdleEvent(sid, "ok")), {})
  \/ \E sid \in Sessions, chat \in RebindChats, key \in mux : PromptBinds(sid, chat, key)
  \/ \E l \in LoopIds : Disconnect(l, "ok")
  \/ \E l \in LoopIds : TimerFire(l)
  \/ \E l \in LoopIds : SubscribeOk(l)

SpecMux == InitMux /\ [][NextMux]_vars

(***************************************************************************)
(* SpecSwitch: chats that prompt, switch session (/sessions <id>) and open *)
(* a new one (/new) while the backend events of their sessions arrive.     *)
(* An event step keeps last.rebind.sessionCache and records its route.     *)
(***************************************************************************)
InitSwitch ==
  /\ sessionToCtx = EmptyMap
  /\ sessionToAdapterKey = EmptyMap
  /\ sessionActiveMsg = EmptyMap
  /\ msgRole = EmptyMap
  /\ msgBuffers = EmptyMap
  /\ isListenerStarted = TRUE
  /\ shouldStopListener = FALSE
  /\ loops = [l \in LoopIds |-> IF l = 1 THEN [state |-> "streaming", retryCount |-> 0]
                                         ELSE NoLoop]
  /\ nextId = 1
  /\ eventsLeft = MaxEvents
  /\ faultBudget = 0
  /\ last = NoLast
  /\ shown = {}
  /\ faultOps = EmptyMap
  /\ finalized = {}
  /\ lateEdit = FALSE
  /\ splitPending = {}

\* the event flow does not touch sessionCache
OfChat(sid, h) ==
  [rebind |-> [NoRebind EXCEPT !.sessionCache = last.rebind.sessionCache,
                               !.bound = last.rebind.bound]]
    @@ Routed(sid, h)

NextSwitch ==
  \/ \E chat \in RebindChats, key \in AdapterKeys, created \in Creatable :
       Prompt(chat, key, created)
  \/ \E chat \in RebindChats, key \in AdapterKeys, targetId \in Sessions :
       SessionsCommand(chat, key, targetId)
  \/ \E chat \in RebindChats, key \in AdapterKeys, created \in Creatable :
       NewCommand(chat, key, created)
  \/ \E l \in LoopIds, m \in Msgs, elapsed \in BOOLEAN :
       \E part \in MuxParts(m) :
         EventStep("message.part.updated", SessionOf(m), m, l, "ok",
                   OfChat(SessionOf(m),
                          handleMessagePartUpdatedEvent(SessionOf(m), m, part, elapsed,
                                                        "ok")), {})
  \/ \E l \in LoopIds, sid \in Sessions :
       EventStep("session.idle", sid,
                 IF sid \in DOMAIN sessionActiveMsg THEN sessionActiveMsg[sid] ELSE NoMsg,
                 l, "ok", OfChat(sid, handleSessionIdleEvent(sid, "ok")), {})

SpecSwitch == InitSwitch /\ [][NextSwitch]_vars

(***************************************************************************)
(* SpecIncoming: two messages of one chat handled by the incoming handler  *)
(* (incoming.flow.ts 89-430).  Nothing serialises the runs: the adapter    *)
(* calls the handler per message, and a run yields at every await, so the  *)
(* steps of the two runs interleave.  last.incoming holds the runs,        *)
(* sessionCache and the sessions api.session.create has returned.          *)
(***************************************************************************)
IncomingChat == "chatA"
IncomingKey == "lark-bridge"
IncomingKinds == {"ping", "slash", "reply", "file", "text"}

\* how the part of the handler between addReaction and ensureSession ends for a
\* message of the kind: it returns, throws, or goes on to the prompt
BodyOutcomes(kind) ==
  CASE kind = "slash" -> {"return", "throw", "continue"}
    [] kind = "reply" -> {"return", "throw", "continue"}
    [] kind = "file" -> {"return", "throw"}
    [] OTHER -> {"continue"}

IncomingStepOf(type, p, run, cache, created) ==
  /\ last' = [NoLast EXCEPT !.type = type, !.loop = p,
                            !.incoming = [run |-> [last.incoming.run EXCEPT ![p] = run],
                                          sessionCache |-> cache, created |-> created]]
  /\ UNCHANGED << sessionActiveMsg, msgRole, msgBuffers, listener, nextId, eventsLeft,
                  faultBudget, history >>

Run(p) == last.incoming.run[p]

\* lines 103-153: the handler is called; ping is answered before the try block
Receive(p, kind) ==
  /\ Run(p).pc = "idle"
  /\ IncomingStepOf("receive", p,
                    [IdleHandler EXCEPT !.kind = kind,
                                        !.pc = IF kind = "ping" THEN "done" ELSE "react"],
                    last.incoming.sessionCache, last.incoming.created)
  /\ UNCHANGED registries

\* lines 157-160: reactionId = await adapter.addReaction(messageId, LOADING_EMOJI)
AddReaction(p, outcome) ==
  /\ Run(p).pc = "react"
  /\ IncomingStepOf("addReaction", p,
                    [Run(p) EXCEPT !.reactionId = IF outcome = "id" THEN "reaction" ELSE "",
                                   !.pc = IF outcome = "throw" THEN "catch" ELSE "body"],
                    last.incoming.sessionCache, last.incoming.created)
  /\ UNCHANGED registries

\* lines 225-391: slash command, pending-question reply, file parts
Body(p, outcome) ==
  /\ Run(p).pc = "body"
  /\ outcome \in BodyOutcomes(Run(p).kind)
  /\ IncomingStepOf("body", p,
                    [Run(p) EXCEPT !.pc = CASE outcome = "return" -> "finally"
                                            [] outcome = "throw" -> "catch"
                                            [] OTHER -> "ensure"],
                    last.incoming.sessionCache, last.incoming.created)
  /\ UNCHANGED registries

\* lines 182-184: ensureSession reads sessionCache; without an entry it awaits
\* createNewSession
EnsureSession(p) ==
  LET ck == CacheKey(IncomingKey, IncomingChat)
      hit == ck \in DOMAIN last.incoming.sessionCache
  IN /\ Run(p).pc = "ensure"
     /\ IncomingStepOf("ensureSession", p,
                       IF hit THEN [Run(p) EXCEPT !.sid = last.incoming.sessionCache[ck],
                                                  !.pc = "prompt"]
                              ELSE [Run(p) EXCEPT !.pc = "creating"],
                       last.incoming.sessionCache, last.incoming.created)
     /\ UNCHANGED registries

\* lines 168-179 and 186-187: api.session.create has returned; sessionId = ""
\* stands for a response without an id, on which ensureSession throws
SessionCreated(p, sessionId) ==
  LET ck == CacheKey(IncomingKey, IncomingChat)
  IN /\ Run(p).pc = "creating"
     /\ sessionId \in (Sessions \ last.incoming.created) \cup {""}
     /\ IF sessionId = ""
          THEN /\ IncomingStepOf("created", p, [Run(p) EXCEPT !.pc = "catch"],
                                 last.incoming.sessionCache, last.incoming.created)
               /\ UNCHANGED registries
          ELSE /\ IncomingStepOf("created", p,
                                 [Run(p) EXCEPT !.sid = sessionId, !.pc = "prompt"],
                                 MapSet(last.incoming.sessionCache, ck, sessionId),
                                 last.incoming.created \cup {sessionId})
               /\ sessionToAdapterKey' = MapSet(sessionToAdapterKey, sessionId, IncomingKey)
               /\ sessionToCtx' = MapSet(sessionToCtx, sessionId, IncomingChat)

\* lines 393-421: the session is bound and api.session.prompt is called
SendPrompt(p, ok) ==
  /\ Run(p).pc = "prompt"
  /\ IncomingStepOf("prompt-sent", p,
                    [Run(p) EXCEPT !.prompted = IF ok THEN Run(p).sid ELSE "",
                                   !.pc = IF ok THEN "finally" ELSE "catch"],
                    last.incoming.sessionCache, last.incoming.created)
  /\ sessionToAdapterKey' = MapSet(sessionToAdapterKey, Run(p).sid, IncomingKey)
  /\ sessionToCtx' = MapSet(sessionToCtx, Run(p).sid, IncomingChat)

\* lines 422-424: the catch block reports the error to the chat; whether its
\* sendMessage throws or not, the finally block runs next
Catch(p) ==
  /\ Run(p).pc = "catch"
  /\ IncomingStepOf("catch", p, [Run(p) EXCEPT !.pc = "finally"],
                    last.incoming.sessionCache, last.incoming.created)
  /\ UNCHANGED registries

\* variant of the finally block that removes no reaction
finallyBlock_keepsReaction(run) == [run EXCEPT !.pc = "done"]

\* lines 425-429: removeReaction(messageId, reactionId) when reactionId is set
finallyBlock(run) ==
  [run EXCEPT !.removed = IF run.reactionId # "" THEN @ + 1 ELSE @, !.pc = "done"]

Finally(p) ==
  /\ Run(p).pc = "finally"
  /\ IncomingStepOf("finally", p, finallyBlock(Run(p)),
                    last.incoming.sessionCache, last.incoming.created)
  /\ UNCHANGED registries

NextIncoming ==
  \/ \E p \in Handlers, kind \in IncomingKinds : Receive(p, kind)
  \/ \E p \in Handlers, outcome \in {"id", "null", "throw"} : AddReaction(p, outcome)
  \/ \E p \in Handlers, outcome \in {"return", "throw", "continue"} : Body(p, outcome)
  \/ \E p \in Handlers : EnsureSession(p)
  \/ \E p \in Handlers, sessionId \in Sessions \cup {""} : SessionCreated(p, sessionId)
  \/ \E p \in Handlers, ok \in BOOLEAN : SendPrompt(p, ok)
  \/ \E p \in Handlers : Catch(p)
  \/ \E p \in Handlers : Finally(p)

SpecIncoming == InitSwitch /\ [][NextIncoming]_vars

(***************************************************************************)
(* SpecFiles: the file store of two chats.  Files are saved and queued,    *)
(* the queue of a chat is drained for a prompt, and a stored file may      *)
(* disappear from disk in between.                                         *)
(***************************************************************************)
MaxFiles == 3         \* records the store makes in one behaviour

FileDigests == {"d1", "d2"}

\* a StoredFileRecord; its path is unique (time stamp and random suffix)
FileRecord(id, chatKey, digest) == [id |-> id, chatKey |-> chatKey, digest |-> digest]

PendingOf(store, chatKey) ==
  IF chatKey \in DOMAIN store.pendingFiles THEN store.pendingFiles[chatKey] ELSE << >>

SeenOf(store, chatKey) ==
  IF chatKey \in DOMAIN store.seenFiles THEN store.seenFiles[chatKey] ELSE EmptyMap

\* saveFilePartToLocal(chatKey, part): valid = the part has a url that decodes
\* to a buffer; digest = the hash of the buffer
saveFilePartToLocal(store, chatKey, digest, valid) ==
  LET seenByChat == SeenOf(store, chatKey)
      duplicated == digest \in DOMAIN seenByChat /\ seenByChat[digest].id \in store.disk
      record == FileRecord(store.made + 1, chatKey, digest)
  IN IF ~valid THEN store
     ELSE IF duplicated THEN [store EXCEPT !.seenFiles = MapSet(@, chatKey, seenByChat)]
     ELSE [pendingFiles |-> MapSet(store.pendingFiles, chatKey,
                                   Append(PendingOf(store, chatKey), record)),
           seenFiles |-> MapSet(store.seenFiles, chatKey, MapSet(seenByChat, digest, record)),
           disk |-> store.disk \cup {record.id},
           made |-> store.made + 1]

RECURSIVE ReadableParts(_, _)
ReadableParts(list, disk) ==
  IF list = << >> THEN << >>
  ELSE IF Head(list).id \in disk
    THEN << Head(list) >> \o ReadableParts(Tail(list), disk)
    ELSE ReadableParts(Tail(list), disk)

\* variant of drainPendingFileParts that leaves the queue in place
drainPendingFileParts_keepsQueue(store, chatKey) ==
  [store |-> store, parts |-> ReadableParts(PendingOf(store, chatKey), store.disk)]

\* drainPendingFileParts(chatKey): the queue of the chat is removed, and a part
\* is made of every record whose file can be read
drainPendingFileParts(store, chatKey) ==
  [store |-> [store EXCEPT !.pendingFiles = MapDelete(@, chatKey)],
   parts |-> ReadableParts(PendingOf(store, chatKey), store.disk)]

FilesStep(type, chat, store, parts) ==
  /\ last' = [NoLast EXCEPT
                !.type = type,
                !.files = [store |-> store, chat |-> chat, parts |-> parts,
                           attached |->
                             [id \in (DOMAIN last.files.attached)
                                       \cup {parts[i].id : i \in 1..Len(parts)} |->
                                Min(2, (IF id \in DOMAIN last.files.attached
                                          THEN last.files.attached[id] ELSE 0)
                                       + Cardinality({i \in 1..Len(parts) :
                                                        parts[i].id = id}))]]]
  /\ UNCHANGED << registries, sessionActiveMsg, msgRole, msgBuffers, listener, nextId,
                  eventsLeft, faultBudget, history >>

\* incoming.flow.ts 319-323: a file part of a message is saved and queued
SaveFile(chat, digest, valid) ==
  /\ last.files.store.made < MaxFiles
  /\ FilesStep("save", chat,
               saveFilePartToLocal(last.files.store, CacheKey(IncomingKey, chat), digest,
                                   valid),
               << >>)

\* incoming.flow.ts 398-409: the prompt of a chat takes the pending files
DrainForPrompt(chat) ==
  LET drained == drainPendingFileParts(last.files.store, CacheKey(IncomingKey, chat))
  IN FilesStep("drain", chat, drained.store, drained.parts)

\* a stored file is removed from disk by something else than the bridge
FileVanishes(id) ==
  /\ id \in last.files.store.disk
  /\ FilesStep("vanish", "", [last.files.store EXCEPT !.disk = @ \ {id}], << >>)

NextFiles ==
  \/ \E chat \in RebindChats, digest \in FileDigests, valid \in BOOLEAN :
       SaveFile(chat, digest, valid)
  \/ \E chat \in RebindChats : DrainForPrompt(chat)
  \/ \E id \in 1..MaxFiles : FileVanishes(id)

SpecFiles == InitSwitch /\ [][NextFiles]_vars

(***************************************************************************)
(* SpecDedup: the Feishu client sees message ids, new ones and ones it has *)
(* seen, and asks isMessageProcessed for each.  A Set iterates in          *)
(* insertion order, so processedMessageIds is a sequence without           *)
(* repetitions.                                                            *)
(***************************************************************************)
PROCESSED_IDS_LIMIT == 2000

MaxRecordings == 5    \* ids one behaviour adds to processedMessageIds

Contains(ids, messageId) == \E i \in 1..Len(ids) : ids[i] = messageId

\* variant of isMessageProcessed that evicts nothing
isMessageProcessed_keepsAll(ids, messageId) ==
  IF Contains(ids, messageId) THEN [ids |-> ids, result |-> TRUE]
  ELSE [ids |-> Append(ids, messageId), result |-> FALSE]

\* FeishuClient.isMessageProcessed(messageId); values().next().value is the
\* entry inserted first
isMessageProcessed(ids, messageId) ==
  IF Contains(ids, messageId) THEN [ids |-> ids, result |-> TRUE]
  ELSE LET added == Append(ids, messageId)
       IN [ids |-> IF Len(added) > PROCESSED_IDS_LIMIT THEN Tail(added) ELSE added,
           result |-> FALSE]

\* the ids a platform event may carry: two never seen, the first two ids ever
\* seen, the oldest and the newest id of the set
DeliveredIds ==
  LET d == last.dedup
  IN {d.made + 1, d.made + 2}
       \cup (IF d.made > 0 THEN {1} ELSE {})
       \cup (IF d.made > 1 THEN {2} ELSE {})
       \cup (IF d.ids # << >> THEN {Head(d.ids), d.ids[Len(d.ids)]} ELSE {})

\* a client that has seen no message yet, or one that has seen all but two of the
\* message ids its set can hold
InitDedup ==
  /\ sessionToCtx = EmptyMap
  /\ sessionToAdapterKey = EmptyMap
  /\ sessionActiveMsg = EmptyMap
  /\ msgRole = EmptyMap
  /\ msgBuffers = EmptyMap
  /\ isListenerStarted = TRUE
  /\ shouldStopListener = FALSE
  /\ loops = [l \in LoopIds |-> IF l = 1 THEN [state |-> "streaming", retryCount |-> 0]
                                         ELSE NoLoop]
  /\ nextId = 1
  /\ eventsLeft = MaxEvents
  /\ faultBudget = 0
  /\ \E seen \in {0, PROCESSED_IDS_LIMIT - 2} :
       last = [NoLast EXCEPT !.dedup = [NoDedup EXCEPT !.ids = [i \in 1..seen |-> i],
                                                       !.log = [i \in 1..seen |-> i],
                                                       !.made = seen]]
  /\ shown = {}
  /\ faultOps = EmptyMap
  /\ finalized = {}
  /\ lateEdit = FALSE
  /\ splitPending = {}

\* feishu.client.ts 1029: im.message.receive_v1 with message_id = messageId
MessageReceived(messageId) ==
  LET d == last.dedup
      r == isMessageProcessed(d.ids, messageId)
  IN /\ d.recorded < MaxRecordings
     /\ messageId \in DeliveredIds
     /\ last' = [NoLast EXCEPT
                   !.type = "im.message.receive_v1",
                   !.dedup = [ids |-> r.ids,
                              log |-> IF r.result THEN d.log ELSE Append(d.log, messageId),
                              made |-> IF messageId > d.made THEN messageId ELSE d.made,
                              recorded |-> IF r.result THEN d.recorded
                                                       ELSE d.recorded + 1,
                              id |-> messageId, result |-> r.result]]
     /\ UNCHANGED << registries, sessionActiveMsg, msgRole, msgBuffers, listener, nextId,
                     eventsLeft, faultBudget, history >>

NextDedup == \E messageId \in DeliveredIds : MessageReceived(messageId)

SpecDedup == InitDedup /\ [][NextDedup]_vars

(***************************************************************************)
(* SpecRefresh: callers of runWithTenantRetry run concurrently on the one  *)
(* event loop; each await is a point where another caller, or the answer   *)
(* of the token request, may run.                                          *)
(***************************************************************************)
MaxCalls == 3       \* runWithTenantRetry calls of one behaviour

MaxRequests == 3    \* token requests of one behaviour

RequestOutcomes == {"token", "noToken", "thrown"}

\* variant of the request's continuation that clears the marker on every path
requestFinished_alwaysClears(r, id, outcome) ==
  [r EXCEPT !.promises[id] = IF outcome = "token" THEN "fulfilled" ELSE "rejected",
            !.tenantToken = IF outcome = "token" THEN id ELSE @,
            !.expired = IF outcome = "token" THEN FALSE ELSE @,
            !.refreshTenantTokenPromise = 0]

\* refreshTenantToken, lines 524-543: the body of the async function after
\* `await this.apiClient.auth.tenantAccessToken.internal(...)`.  A thrown
\* request error leaves the function at the await, before either assignment
\* of undefined.
requestFinished(r, id, outcome) ==
  CASE outcome = "thrown" ->
         [r EXCEPT !.promises[id] = "rejected"]
    [] outcome = "noToken" ->
         [r EXCEPT !.promises[id] = "rejected", !.refreshTenantTokenPromise = 0]
    [] outcome = "token" ->
         [r EXCEPT !.promises[id] = "fulfilled", !.tenantToken = id,
                   !.expired = FALSE, !.refreshTenantTokenPromise = 0]

\* refreshTenantToken, lines 522-523 and 545: the promise the call returns
refreshTenantToken(r) ==
  IF r.refreshTenantTokenPromise # 0
    THEN [r |-> r, promise |-> r.refreshTenantTokenPromise]
    ELSE LET id == Len(r.promises) + 1
         IN [r |-> [r EXCEPT !.promises = Append(@, "pending"),
                             !.refreshTenantTokenPromise = id],
             promise |-> id]

RefreshStep(type, r) ==
  /\ last' = [NoLast EXCEPT !.type = type, !.refresh = r]
  /\ UNCHANGED << registries, sessionActiveMsg, msgRole, msgBuffers, listener, nextId,
                  eventsLeft, faultBudget, history >>

\* a call of refreshTenantToken by caller c, who then awaits the promise at pc
CallRefresh(type, c, pc) ==
  LET called == refreshTenantToken(last.refresh)
  IN /\ Len(called.r.promises) <= MaxRequests
     /\ RefreshStep(type, [called.r EXCEPT !.callers[c] =
                             [pc |-> pc, awaits |-> called.promise, outcome |-> "none"]])

\* runWithTenantRetry up to its first await: requestOptions, lines 566-571
RunWithTenantRetry(c) ==
  LET r == last.refresh
  IN /\ r.callers[c].pc = "idle"
     /\ r.started < MaxCalls
     /\ LET s == [r EXCEPT !.started = @ + 1]
        IN IF s.tenantToken = 0 \/ s.expired
             THEN LET called == refreshTenantToken(s)
                  IN /\ Len(called.r.promises) <= MaxRequests
                     /\ RefreshStep("runWithTenantRetry",
                          [called.r EXCEPT !.callers[c] =
                             [pc |-> "options", awaits |-> called.promise,
                              outcome |-> "none"]])
             ELSE RefreshStep("runWithTenantRetry",
                    [s EXCEPT !.callers[c] =
                       [pc |-> "fn", awaits |-> 0, outcome |-> "none"]])

\* the token request of promise id is answered
RequestFinished(id, outcome) ==
  /\ id \in 1..Len(last.refresh.promises)
  /\ last.refresh.promises[id] = "pending"
  /\ RefreshStep("tenantAccessToken",
       [requestFinished(last.refresh, id, outcome) EXCEPT !.answer = outcome])

\* isTenantTokenExpired becomes true
TokenExpires ==
  /\ last.refresh.tenantToken # 0
  /\ ~last.refresh.expired
  /\ RefreshStep("expired", [last.refresh EXCEPT !.expired = TRUE])

\* a caller resumes after `await this.refreshTenantToken()`: lines 568 and 582
Resumed(c) ==
  LET r == last.refresh
      me == r.callers[c]
  IN /\ me.pc \in {"options", "refresh"}
     /\ r.promises[me.awaits] # "pending"
     /\ RefreshStep("resumed",
          [r EXCEPT !.callers[c] =
             IF r.promises[me.awaits] = "rejected"
               THEN [IdleCaller EXCEPT !.outcome = "threw"]
               ELSE [pc |-> IF me.pc = "options" THEN "fn" ELSE "retry",
                     awaits |-> 0, outcome |-> "none"]])

\* fn(options) settles: lines 577-582
FnSettled(c, result) ==
  LET r == last.refresh
  IN /\ r.callers[c].pc = "fn"
     /\ CASE result = "ok" ->
               RefreshStep("fn", [r EXCEPT !.callers[c] =
                                    [IdleCaller EXCEPT !.outcome = "returned"]])
          [] result = "otherError" ->
               RefreshStep("fn", [r EXCEPT !.callers[c] =
                                    [IdleCaller EXCEPT !.outcome = "threw"]])
          [] result = "tokenError" ->
               CallRefresh("fn", c, "refresh")

\* fn(retryOptions) settles: line 585
RetrySettled(c, result) ==
  LET r == last.refresh
  IN /\ r.callers[c].pc = "retry"
     /\ RefreshStep("retry",
          [r EXCEPT !.callers[c] =
             [IdleCaller EXCEPT !.outcome = IF result = "ok" THEN "returned"
                                                             ELSE "threw"]])

NextRefresh ==
  \/ \E c \in Callers : RunWithTenantRetry(c)
  \/ \E id \in 1..MaxRequests, outcome \in RequestOutcomes : RequestFinished(id, outcome)
  \/ TokenExpires
  \/ \E c \in Callers : Resumed(c)
  \/ \E c \in Callers, result \in {"ok", "tokenError", "otherError"} : FnSettled(c, result)
  \/ \E c \in Callers, result \in {"ok", "otherError"} : RetrySettled(c, result)

SpecRefresh == InitSwitch /\ [][NextRefresh]_vars

(***************************************************************************)
(* SpecSuspend: the turns of one session with the handler of a part event  *)
(* yielding at its first await, and a stop call that may run meanwhile.    *)
(***************************************************************************)
NextSuspend ==
  \/ \E l \in LoopIds, m \in RichMsgs, elapsed \in BOOLEAN :
       \E part \in Parts(m) : MessagePartUpdated(l, m, part, elapsed, "ok")
  \/ \E l \in LoopIds, m \in RichMsgs, elapsed \in BOOLEAN :
       \E part \in Parts(m) : PartSuspend(l, m, part, elapsed)
  \/ \E l \in LoopIds : PartResume(l)
  \/ Stop

SpecSuspend == InitTurn /\ [][NextSuspend]_vars

TypeOK ==
  /\ DOMAIN msgBuffers \subseteq Msgs
  /\ DOMAIN sessionActiveMsg \subseteq Sessions
  /\ eventsLeft \in 0..(MaxEvents + MaxTurnEvents + MaxRetry + 2)
  /\ faultBudget \in 0..MaxFaults

(***************************************************************************)
(* Properties.                                                             *)
(***************************************************************************)
PlatformIdOf(m) == msgBuffers[m].platformMsgId

\* C1: after any sequence of events, no two buffers hold the same non-null
\* platformMsgId.
C1_UniquePlatformMsgId ==
  \A a, b \in DOMAIN msgBuffers :
    (a # b /\ PlatformIdOf(a) # NoPlatformMsg) => PlatformIdOf(a) # PlatformIdOf(b)

\* a carry has just moved a platform message id from one buffer to another
C1_Witness ==
  /\ last.switch.kind = "carry"
  /\ last.switch.prev \in DOMAIN msgBuffers
  /\ last.switch.next \in DOMAIN msgBuffers
  /\ PlatformIdOf(last.switch.next) # NoPlatformMsg
  /\ PlatformIdOf(last.switch.prev) = NoPlatformMsg

C3_CarryMovesThePlatformMessage ==
  last.switch.kind = "carry" =>
    /\ last.switch.prevPid # NoPlatformMsg
    /\ last.switch.nextPidAfter = last.switch.prevPid
    /\ last.switch.prevPidAfter = NoPlatformMsg
    /\ last.switch.nextCarriedAfter
    /\ last.switch.nops = 0
    /\ \A i \in 1..Len(last.ops) : last.ops[i].mid # last.switch.prev

\* a carry onto a buffer that already held a platform message of its own
C3_Witness ==
  /\ last.switch.kind = "carry"
  /\ last.switch.nextPidAfter = last.switch.prevPid
  /\ nextId > 2


\* the carry condition of the code, on the fields of prev
C4_CarryCondition(prev) ==
  /\ prev.platformMsgId # NoPlatformMsg
  /\ prev.status \notin {"error", "aborted"}
  /\ \/ prev.statusNote \in {"tool-calls", "Tool calls failed"}
     \/ /\ TrimLength(prev.text) <= 1
        /\ \/ \E c \in CallIds : prev.tools[c] # NoTool
           \/ TrimLength(prev.reasoning) > 0

\* the carry condition as claimed: platformMsgId and status play no part
C4_ClaimedCondition(prev) ==
  \/ prev.statusNote \in {"tool-calls", "Tool calls failed"}
  \/ /\ TrimLength(prev.text) <= 1
     /\ \/ \E c \in CallIds : prev.tools[c] # NoTool
        \/ TrimLength(prev.reasoning) > 0

\* a step in which the active message of a session switches away from a buffer
SwitchFrom(prev) ==
  /\ last'.type = "message.part.updated"
  /\ last'.switch.kind # "none"
  /\ last'.switch.prev = prev
  /\ prev \in DOMAIN msgBuffers

\* C4 (amended): a switch carries exactly when prev holds a platform message,
\* its status is neither error nor aborted, and either its status note names
\* the tool-call phase or it has no substantive answer text (trimmed length
\* <= 1) together with a tool call record or non-blank reasoning.
C4_CarryExactlyWhen ==
  [][\A prev \in Msgs :
       SwitchFrom(prev) =>
         ((last'.switch.kind = "carry") <=> C4_CarryCondition(msgBuffers[prev]))]_vars

\* C4 as stated: a switch carries exactly when prev has no substantive answer
\* text and has tool calls or reasoning, or its status note names the
\* tool-call phase, whatever its platformMsgId and status.
C4_AsStated ==
  [][\A prev \in Msgs :
       SwitchFrom(prev) =>
         ((last'.switch.kind = "carry") <=> C4_ClaimedCondition(msgBuffers[prev]))]_vars

\* a switch did not carry although prev, in error, had a tool call, no answer
\* text and a platform message
C4_Witness ==
  /\ last.switch.kind = "finalize"
  /\ last.switch.prev \in DOMAIN msgBuffers
  /\ last.switch.prevPid # NoPlatformMsg
  /\ msgBuffers[last.switch.prev].status = "error"
  /\ TrimLength(msgBuffers[last.switch.prev].text) = 0
  /\ \E c \in CallIds : msgBuffers[last.switch.prev].tools[c] # NoTool

\* in a switch without carry, prev is terminal after the switch, the first
\* flushMessage call of the handler is the forced flush of prev, and every send
\* or edit for prev precedes every send or edit for next
FinalizedBeforeNext ==
  last.switch.kind = "finalize" =>
    /\ last.switch.prev \in DOMAIN msgBuffers => IsTerminal(last.switch.prevStatusAfter)
    /\ Len(last.calls) > 0
    /\ last.calls[1].mid = last.switch.prev
    /\ last.calls[1].force
    /\ \A i, j \in 1..Len(last.ops) :
         (last.ops[i].mid = last.switch.prev /\ last.ops[j].mid = last.switch.next) => i < j

\* C5: when a session switches from prev to next without carry, prev is marked
\* done and force-flushed before any send or edit for next, and afterwards the
\* platform message of prev is never edited again.
C5_PrevIsFinalAfterSwitch ==
  /\ FinalizedBeforeNext
  /\ ~lateEdit

\* the step that splits B: one edit of the execution message with blank answer
\* text and status done, before any send for B; afterwards B is no longer
\* carried and no longer holds the execution message; a send for B in the
\* same step carries the full answer and its id is stored in B
SplitStep ==
  last.split.happened =>
    LET B == last.split.mid
        sp == last.split
    IN /\ sp.to = sp.from + 1
       /\ last.ops[sp.to].op = "edit"
       /\ last.ops[sp.to].pid = sp.pid
       /\ last.ops[sp.to].text = EmptyStr
       /\ last.ops[sp.to].status = "done"
       /\ ~msgBuffers[B].executionCarried
       /\ msgBuffers[B].platformMsgId # sp.pid
       /\ \A i \in 1..Len(last.ops) :
            (last.ops[i].mid = B /\ i # sp.to) =>
              /\ i > sp.to
              /\ last.ops[i].op = "send"
              /\ last.ops[i].text = msgBuffers[B].text
              /\ last.ops[i].pid = msgBuffers[B].platformMsgId

\* a later step that delivers for a buffer split off before: the delivery is a
\* send of the full answer and its id is stored in the buffer (the edit that
\* finalizes the execution message of a further split is SplitStep's)
SendAfterSplit ==
  \A m \in splitPending :
    \A i \in 1..Len(last'.ops) :
      (/\ last'.ops[i].mid = m
       /\ ~(last'.split.happened /\ last'.split.mid = m /\ i = last'.split.to)) =>
        /\ last'.ops[i].op = "send"
        /\ last'.ops[i].text = msgBuffers'[m].text
        /\ last'.ops[i].pid = msgBuffers'[m].platformMsgId

\* C6: when the answer text of a carried buffer B holding platform message m1
\* reaches the split threshold outside a tool-call phase, the listener first
\* edits m1 with blank answer text and status done, then clears B's
\* platformMsgId and carried flag; the next delivery for B is a send of a new
\* message with B's full answer whose id is stored in B; the edit of m1
\* precedes the send.
C6_SplitFinalizesThenSends == []SplitStep /\ [][SendAfterSplit]_vars

\* a split whose step also sent the new message
C6_Witness ==
  /\ last.split.happened
  /\ Len(last.ops) > last.split.to
  /\ last.ops[Len(last.ops)].op = "send"
  /\ last.ops[Len(last.ops)].mid = last.split.mid

\* C7: when session.idle ends a turn, the full answer text of the active
\* buffer of the session has been delivered in a send or edit for that buffer.
C7_NoAnswerLostAtIdle ==
  (/\ last.type = "session.idle"
   /\ last.handled
   /\ last.mid \in DOMAIN msgBuffers
   /\ TrimLength(msgBuffers[last.mid].text) > 0) => last.mid \in shown

\* C8: every message a handled fault event reports (message.updated with an
\* error, session.error) has exactly one delivered send or edit that shows its
\* error or aborted status: not zero, not two.
C8_ExactlyOneFaultUpdate ==
  \A m \in DOMAIN faultOps : faultOps[m] = 1

\* the forced flushes of a flushAll: one per eligible session, none for others
FlushedEverySession ==
  /\ \A sid \in last.eligible :
       Cardinality({i \in 1..Len(last.calls) :
                      /\ last.calls[i].call = "flushMessage"
                      /\ last.calls[i].mid = sessionActiveMsg[sid]}) = 1
  /\ \A i \in 1..Len(last.calls) :
       last.calls[i].call = "flushMessage" =>
         /\ last.calls[i].force
         /\ \E sid \in last.eligible : last.calls[i].mid = sessionActiveMsg[sid]

\* C9: whenever the stream terminates while the listener is not stopped, by a
\* thrown error or by the iterator ending, every session with an active
\* buffer is force-flushed and a new subscribe attempt is scheduled.
C9_TerminationFlushesAndReconnects ==
  (last.type \in {"disconnect", "end"} /\ ~last.stopped) =>
    /\ FlushedEverySession
    /\ loops[last.loop].state = "timer"

\* C10: on a stream disconnect, before the reconnect is scheduled, exactly one
\* forced flush is issued per session with an active message id, a chat
\* context and a registered adapter, none for another session, and the flush
\* reaches the adapter even when the display hash equals the delivered one.
C10_DisconnectFlushesOncePerSession ==
  (last.type = "disconnect" /\ ~last.stopped) =>
    /\ FlushedEverySession
    /\ Len(last.calls) > 0
    /\ last.calls[Len(last.calls)].call = "setTimeout"
    /\ \A i \in 1..(Len(last.calls) - 1) :
         /\ last.calls[i].call = "flushMessage"
         /\ (last.calls[i].hadPid /\ ~last.calls[i].blank) => last.calls[i].issued

\* a disconnect force-flushed a session whose display had been delivered already
C10_Witness ==
  /\ last.type = "disconnect"
  /\ ~last.stopped
  /\ last.eligible # {}
  /\ \E i \in 1..Len(last.calls) :
       /\ last.calls[i].call = "flushMessage"
       /\ last.calls[i].sameHash
       /\ last.calls[i].issued

\* the delay of the timer a disconnect step scheduled
ScheduledDelay == last.calls[Len(last.calls)].delay

\* a disconnect step of a running listener schedules min(5000*(k+1), 60000),
\* k being the loop's count of failures since its last successful subscribe
DelayOfStep ==
  \A l \in LoopIds :
    (last'.type = "disconnect" /\ last'.loop = l /\ ~last'.stopped) =>
      LET k == loops[l].retryCount
      IN /\ last'.calls[Len(last'.calls)].call = "setTimeout"
         /\ last'.calls[Len(last'.calls)].delay =
              IF 5000 * (k + 1) < 60000 THEN 5000 * (k + 1) ELSE 60000
         /\ last'.calls[Len(last'.calls)].delay <= 60000
         /\ k > 0 => last'.calls[Len(last'.calls)].delay >=
                       (IF 5000 * k < 60000 THEN 5000 * k ELSE 60000)
         /\ loops'[l].retryCount = k + 1

\* the counter is 0 after a successful subscribe and moves at a failure only
CounterOfStep ==
  \A l \in LoopIds :
    /\ (last'.type = "subscribed" /\ last'.loop = l) => loops'[l].retryCount = 0
    /\ ~(last'.type \in {"subscribed", "disconnect", "start"} /\ last'.loop = l) =>
         loops'[l].retryCount = loops[l].retryCount

\* C11: the reconnect delay after the k-th consecutive failed connection (k
\* from 0 since the last successful subscribe) is min(5000*(k+1), 60000) ms,
\* non-decreasing in k, never above 60000, and the counter is 0 again as soon
\* as a subscribe succeeds.
C11_ReconnectDelay == [][DelayOfStep /\ CounterOfStep]_vars

\* a disconnect after twelve or more failures in a row: the cap applies
C11_Witness ==
  /\ last.type = "disconnect"
  /\ ~last.stopped
  /\ loops[last.loop].retryCount > 12
  /\ ScheduledDelay = 60000

\* the connect closures that hold or await a subscription or a reconnect timer
OpenSubscriptions ==
  {l \in LoopIds : loops[l].state \in {"connecting", "streaming", "timer"}}

\* C12: at any time at most one subscription to the backend event stream is
\* open or pending (an iterating connect loop or a scheduled reconnect
\* timer), for every interleaving of start calls, stop calls and stream
\* failures, a stop followed by a start included.
C12_AtMostOneSubscription == Cardinality(OpenSubscriptions) <= 1

EventTypes ==
  {"message.updated", "message.part.updated", "session.error", "session.idle",
   "command.executed"}

\* in a stopped listener no step but a start calls subscribe or handles an event
QuietWhileStopped ==
  (shouldStopListener /\ ~isListenerStarted /\ last'.type # "start") =>
    /\ \A l \in LoopIds :
         loops'[l].state = "connecting" => loops[l].state = "connecting"
    /\ last'.type \notin EventTypes

\* C13: after stopGlobalEventListener and until start is called again, no
\* subscribe to the event stream is made and no event is processed, also
\* when a reconnect timer had been scheduled before the stop.
C13_NoSubscribeAfterStop == [][QuietWhileStopped]_vars

\* C14: after stopGlobalEventListener returns, the session registry, the
\* session-to-adapter index, the active-message map, the role map and the
\* buffer store are empty and stay empty until the next incoming user
\* message, also when a handler was suspended in a send or edit while stop
\* ran and resumes afterwards.
C14_EmptyAfterStop ==
  (shouldStopListener /\ ~isListenerStarted) =>
    /\ sessionToCtx = EmptyMap
    /\ sessionToAdapterKey = EmptyMap
    /\ sessionActiveMsg = EmptyMap
    /\ msgRole = EmptyMap
    /\ msgBuffers = EmptyMap

\* the adapter calls of one safeEditWithRetry call: at most two edits of one
\* platform message, none after a successful one, and after two failed ones a
\* send of a new message whose id the buffer then holds
EditsThenSend ==
  \A i \in 1..Len(last.ops) :
    LET op == last.ops[i]
        again == /\ i > 1
                 /\ last.ops[i - 1].op = "edit"
                 /\ last.ops[i - 1].pid = op.pid
                 /\ last.ops[i - 1].mid = op.mid
    IN (op.op = "edit" /\ again) =>
         /\ ~last.ops[i - 1].ok
         /\ ~(i > 2 /\ last.ops[i - 2].op = "edit" /\ last.ops[i - 2].pid = op.pid
                    /\ last.ops[i - 2].mid = op.mid)
         /\ ~op.ok =>
              /\ i < Len(last.ops)
              /\ last.ops[i + 1].op = "send"
              /\ last.ops[i + 1].mid = op.mid
              /\ (last.ops[i + 1].ok /\ op.mid \in DOMAIN msgBuffers) =>
                   msgBuffers[op.mid].platformMsgId = last.ops[i + 1].pid

\* C15: safeEditWithRetry issues at most two edit attempts for one call,
\* returns success as soon as an edit succeeds, and if both edits fail it
\* sends a brand-new message and returns its id, which the caller stores as
\* the buffer's platformMsgId.
C15_EditTwiceThenSend == EditsThenSend

\* C16: a failing adapter call during the handling of an event never ends the
\* event loop and never triggers the disconnect/reconnect path: the listener
\* goes on with the next event of the same subscription.
C16_FailureKeepsLoop ==
  [][(/\ last'.type \in EventTypes
      /\ \E i \in 1..Len(last'.ops) : ~last'.ops[i].ok) => loops' = loops]_vars

\* a part event whose buffer, with the part applied, renders to the display
\* delivered last issues no send and no edit for the buffer (a step that
\* carries a platform message onto the buffer or splits the buffer off its
\* execution message is not a plain flush)
NoChangeNoCall ==
  \A m \in Msgs :
    (/\ last'.type = "message.part.updated"
     /\ last'.mid = m
     /\ last'.handled
     /\ ~last'.split.happened
     /\ m \in DOMAIN msgBuffers
     /\ m \in DOMAIN msgBuffers'
     /\ last'.switch.kind # "carry"
     /\ msgBuffers[m].platformMsgId # NoPlatformMsg
     /\ simpleHash(buildPlatformDisplay(msgBuffers'[m])) = msgBuffers[m].lastDisplayHash)
      => \A i \in 1..Len(last'.ops) : last'.ops[i].mid # m

\* C17: two consecutive flush decisions for one buffer with no content change
\* in between result in exactly one adapter call: a non-forced flush whose
\* display hashes to lastDisplayHash issues no send and no edit.
C17_SameHashNoCall == [][NoChangeNoCall]_vars

\* a flush that passed the throttle and was skipped for its unchanged display
C17_Witness ==
  /\ last.type = "message.part.updated"
  /\ last.ops = <<>>
  /\ Len(last.calls) > 0
  /\ last.calls[Len(last.calls)] = SkipSameHash(last.mid)
  /\ msgBuffers[last.mid].platformMsgId # NoPlatformMsg

\* the last step handled a session.error classified as aborted for a session
\* with a registered context and an active message
AbortHandled ==
  /\ last.type = "session.error"
  /\ last.aborted
  /\ last.handled

\* the handling of an abort: one flushMessage call for the active message with
\* force set, which reaches the adapter whenever the buffer has a platform
\* message and a non-blank display; a streaming buffer becomes aborted, a
\* terminal one keeps its status
AbortStep ==
  AbortHandled' =>
    LET m == last'.mid
    IN /\ Len(last'.calls) = 1
       /\ last'.calls[1].call = "flushMessage"
       /\ last'.calls[1].mid = m
       /\ last'.calls[1].force
       /\ (last'.calls[1].hadPid /\ ~last'.calls[1].blank) =>
            /\ last'.calls[1].issued
            /\ Len(last'.ops) = 1
            /\ last'.ops[1].op = "edit"
            /\ last'.ops[1].pid = msgBuffers[m].platformMsgId
            /\ last'.ops[1].status = msgBuffers'[m].status
       /\ m \in DOMAIN msgBuffers =>
            msgBuffers'[m].status =
              IF msgBuffers[m].status = "streaming" THEN "aborted"
              ELSE msgBuffers[m].status

Orphaned(sid) ==
  \/ sid \notin DOMAIN sessionToCtx
  \/ sid \notin DOMAIN sessionToAdapterKey
  \/ sessionToAdapterKey[sid] \notin mux

OrphanIsNoOp ==
  (/\ last'.type \in {"message.updated", "message.part.updated", "session.error",
                      "session.idle"}
   /\ Orphaned(last'.sid)) =>
      /\ last'.ops = <<>>
      /\ last'.calls = <<>>
      /\ msgBuffers' = msgBuffers
      /\ sessionActiveMsg' = sessionActiveMsg
      /\ loops' = loops

\* C19: an event (message.updated, message.part.updated, session.error,
\* session.idle) whose session has no registered chat context or no
\* registered adapter causes no send and no edit, raises no error, and
\* creates or changes no message buffer and no active-message entry.
C19_OrphanEventIsNoOp == [][OrphanIsNoOp]_vars

\* a part event for a message that has a buffer, after its session was deleted
C19_Witness ==
  /\ last.type = "message.part.updated"
  /\ Orphaned(last.sid)
  /\ last.mid \in DOMAIN msgBuffers
  /\ last.sid \in DOMAIN sessionActiveMsg

\* the buffers that live through the step and are not terminal before it
Living == {m \in (DOMAIN msgBuffers) \cap (DOMAIN msgBuffers') :
             msgBuffers[m].status = "streaming"}

\* the step applied a full-value part of the given type to buffer m
SnapshotOf(m, type) ==
  /\ last'.type = "message.part.updated"
  /\ last'.handled
  /\ last'.mid = m
  /\ last'.snapshot = type

Redelivery ==
  /\ last.event # NoEvent
  /\ last'.event = last.event

\* a redelivered event changes no registry and no buffer
RedeliveryChangesNothing ==
  Redelivery =>
    /\ msgBuffers' = msgBuffers
    /\ sessionActiveMsg' = sessionActiveMsg
    /\ msgRole' = msgRole
    /\ sessionToCtx' = sessionToCtx
    /\ sessionToAdapterKey' = sessionToAdapterKey

\* C21: handling the same backend event twice in a row leaves every registry
\* and every buffer field in the state handling it once leaves, for each
\* event type (message.updated, message.part.updated with a delta,
\* session.error, session.idle, command.executed).
C21_RedeliveryIsIdempotent == [][RedeliveryChangesNothing]_vars

\* the same for the events that carry no part
C21_ExceptParts ==
  [][last'.type # "message.part.updated" => RedeliveryChangesNothing]_vars

C22_Throttled ==
  /\ last.type = "message.part.updated"
  /\ last.mid \in DOMAIN last.clock.sentAt
  /\ last.clock.now - last.clock.sentAt[last.mid] \in 1..(UPDATE_INTERVAL - 1)
  /\ last.ops = <<>>

\* the display of a carried buffer in a tool-call phase has no answer text
HiddenInToolCallPhase(buf) ==
  (buf.executionCarried /\ isToolCallPhase(buf)) =>
    buildPlatformDisplay(buf).text = EmptyStr

\* the display of any other buffer has the answer text
ShownOutsideToolCallPhase(buf) ==
  ~(buf.executionCarried /\ isToolCallPhase(buf)) =>
    buildPlatformDisplay(buf).text = buf.text

\* C23: while a buffer is execution-carried and in a tool-call phase, the display
\* built by buildPlatformDisplay contains none of its answer text; the display of
\* a buffer that is not carried, or is carried but not in a tool-call phase,
\* contains the answer text.
C23_TextHiddenInToolCallPhase ==
  \A m \in DOMAIN msgBuffers :
    /\ HiddenInToolCallPhase(msgBuffers[m])
    /\ ShownOutsideToolCallPhase(msgBuffers[m])

C23_FirstHalf == \A m \in DOMAIN msgBuffers : HiddenInToolCallPhase(msgBuffers[m])

C23_SecondHalf == \A m \in DOMAIN msgBuffers : ShownOutsideToolCallPhase(msgBuffers[m])

\* the step handles session.idle for a session with a registered context,
\* a registered adapter and an active message that has a buffer
IdleOfActiveBuffer ==
  /\ last'.type = "session.idle"
  /\ ~Orphaned(last'.sid)
  /\ last'.sid \in DOMAIN sessionActiveMsg
  /\ sessionActiveMsg[last'.sid] \in DOMAIN msgBuffers

ForcedFlushCalled(m) ==
  \E i \in 1..Len(last'.calls) :
    /\ last'.calls[i].call = "flushMessage"
    /\ last'.calls[i].mid = m
    /\ last'.calls[i].force

StatusAndNoteKept(m) ==
  /\ msgBuffers'[m].status = msgBuffers[m].status
  /\ msgBuffers'[m].statusNote = msgBuffers[m].statusNote

C24_DoneBefore ==
  /\ last.type = "session.idle"
  /\ last.handled
  /\ last.mid \in DOMAIN msgBuffers
  /\ msgBuffers[last.mid].status = "done"
  /\ msgBuffers[last.mid].statusNote = "stop"

\* the step handles a step-finish part of an assistant message whose session
\* has a registered context and adapter
StepFinishStep ==
  /\ last'.event.type = "message.part.updated"
  /\ last'.event.part.type = "step-finish"
  /\ ~Orphaned(last'.event.sid)
  /\ ~(last'.event.mid \in DOMAIN msgRole /\ msgRole[last'.event.mid] = "user")

\* C25: a step-finish part moves a buffer that is still streaming (or has just
\* been created) to done with the step's reason as status note, and leaves the
\* status and note of a buffer already in error or aborted unchanged.
C25_StepFinishClosesStreaming ==
  [][StepFinishStep =>
       LET m == last'.event.mid
           before == IF m \in DOMAIN msgBuffers THEN msgBuffers[m].status ELSE "streaming"
       IN /\ before = "streaming" =>
               /\ msgBuffers'[m].status = "done"
               /\ msgBuffers'[m].statusNote = last'.event.part.reason
          /\ before \in {"error", "aborted"} => StatusAndNoteKept(m)]_vars

\* a step-finish has closed a buffer with text and the platform message has been
\* edited to show it done
C25_Witness ==
  /\ last.event.part.type = "step-finish"
  /\ last.handled
  /\ msgBuffers[last.mid].status = "done"
  /\ msgBuffers[last.mid].statusNote = last.event.part.reason
  /\ Length(msgBuffers[last.mid].text) > 0
  /\ \E i \in 1..Len(last.ops) :
        /\ last.ops[i].op = "edit"
        /\ last.ops[i].mid = last.mid
        /\ last.ops[i].status = "done"

\* a step-finish has reached a buffer that was aborted or in error
C25_TerminalBefore ==
  /\ last.event.part.type = "step-finish"
  /\ last.handled
  /\ msgBuffers[last.mid].status \in {"error", "aborted"}

\* the step handles message.updated for an assistant message that has a
\* streaming buffer
UpdateOfStreaming ==
  /\ last'.event.type = "message.updated"
  /\ last'.event.info.role = "assistant"
  /\ ~Orphaned(last'.event.sid)
  /\ last'.event.mid \in DOMAIN msgBuffers
  /\ msgBuffers[last'.event.mid].status = "streaming"

\* the status and the note the claim gives for an error descriptor
BucketOf(err) ==
  IF err.name = "MessageAbortedError"
    THEN [status |-> "aborted", notes |-> {IF err.message # "" THEN err.message ELSE "aborted"}]
  ELSE IF err.name = "MessageOutputLengthError"
    THEN [status |-> "error", notes |-> {"output too long"}]
  ELSE IF err.name = "APIError"
    THEN [status |-> "error", notes |-> {IF err.message # "" THEN err.message ELSE "api error"}]
  ELSE [status |-> "error",
        notes |-> {IF err.message # "" THEN err.message
                   ELSE IF err.name # "" THEN err.name ELSE "error"}]

\* C26: a terminal message.updated event is classified by its error descriptor
\* into exactly one bucket: MessageAbortedError gives aborted;
\* MessageOutputLengthError gives error with note 'output too long'; APIError
\* gives error with the error's message or 'api error'; any other error gives
\* error with the error's message, else its name, else 'error'; no error but a
\* finish marker or a completion time gives done.
C26_ErrorBuckets ==
  [][UpdateOfStreaming =>
       LET info == last'.event.info
           after == msgBuffers'[info.id]
       IN IF info.error # NoError
            THEN /\ after.status = BucketOf(info.error).status
                 /\ after.statusNote \in BucketOf(info.error).notes
          ELSE IF info.finish # "" \/ info.completed
            THEN after.status = "done"
          ELSE StatusAndNoteKept(info.id)]_vars

\* an APIError without a message has closed a streaming buffer that is shown on
\* the platform, and the display was edited
C26_Witness ==
  /\ last.event.type = "message.updated"
  /\ last.event.info.error.name = "APIError"
  /\ last.event.info.error.message = ""
  /\ last.handled
  /\ last.mid \in DOMAIN msgBuffers
  /\ msgBuffers[last.mid].status = "error"
  /\ msgBuffers[last.mid].statusNote = "api error"
  /\ \E i \in 1..Len(last.ops) : last.ops[i].op = "edit" /\ last.ops[i].status = "error"

\* an error without name and message has closed a buffer with the note 'error'
C26_Anonymous ==
  /\ last.event.type = "message.updated"
  /\ last.event.info.error # NoError
  /\ last.event.info.error.name = ""
  /\ last.event.info.error.message = ""
  /\ last.handled
  /\ last.mid \in DOMAIN msgBuffers
  /\ msgBuffers[last.mid].statusNote = "error"

\* the step removes an entry of sessionToCtx or of the session-to-adapter index
EntryRemoved ==
  \/ \E sid \in DOMAIN sessionToCtx : sid \notin DOMAIN sessionToCtx'
  \/ \E sid \in DOMAIN sessionToAdapterKey : sid \notin DOMAIN sessionToAdapterKey'

\* C27: an entry of sessionToCtx or of the session-to-adapter index is removed
\* only by an explicit reset (/reset, /restart or the stop of the listener); no
\* other slash command, prompt or backend event removes one.
C27_OnlyResetRemoves == [][EntryRemoved => last'.type \in {"restart", "stop"}]_vars

\* the same with /sessions delete among the steps that may remove an entry
C27_ResetOrDelete == [][EntryRemoved => last'.type \in {"restart", "stop", "delete"}]_vars

\* C28: a session reset (/reset or /restart) empties the message buffer store
\* and the active-message map together with the session registries, so that no
\* buffer of a pre-reset message id remains after it.
C28_ResetEmptiesStores ==
  [][last'.type = "restart" =>
       /\ msgBuffers' = EmptyMap
       /\ sessionActiveMsg' = EmptyMap]_vars

\* no platform message id that a buffer had at the reset is edited after it
C28_NoStaleEdit ==
  \A i \in 1..Len(last.ops) :
    last.ops[i].op = "edit" => last.ops[i].pid \notin last.stale

\* the step is the catch block of connect, the reconnect timer or the new
\* subscription
ReconnectStep == last'.type \in {"disconnect", "timer", "subscribed"}

ContentKept ==
  /\ DOMAIN msgBuffers' = DOMAIN msgBuffers
  /\ \A m \in DOMAIN msgBuffers :
        /\ msgBuffers'[m].text = msgBuffers[m].text
        /\ msgBuffers'[m].reasoning = msgBuffers[m].reasoning
        /\ msgBuffers'[m].tools = msgBuffers[m].tools
        /\ msgBuffers'[m].status = msgBuffers[m].status
        /\ msgBuffers'[m].platformMsgId = msgBuffers[m].platformMsgId
  /\ sessionActiveMsg' = sessionActiveMsg
  /\ sessionToCtx' = sessionToCtx
  /\ sessionToAdapterKey' = sessionToAdapterKey

\* the first event of a new subscription is a part of the active message of a
\* bound session, which has a buffer
PartOfKnownAfterSubscribe ==
  /\ last.type = "subscribed"
  /\ last'.event.type = "message.part.updated"
  /\ ~Orphaned(last'.sid)
  /\ last'.mid \in DOMAIN msgBuffers
  /\ last'.sid \in DOMAIN sessionActiveMsg
  /\ sessionActiveMsg[last'.sid] = last'.mid
  /\ ~(last'.mid \in DOMAIN msgRole /\ msgRole[last'.mid] = "user")

\* the part is applied to the buffer as it was, and without a split or a failing
\* adapter call the buffer keeps its platform message and only edits it
ContinuesBuffer ==
  LET m == last'.mid
      part == last'.event.part
      old == msgBuffers[m]
      new == msgBuffers'[m]
  IN /\ new.text = IF part.type = "text" THEN Concat(old.text, part.value) ELSE old.text
     /\ new.reasoning = IF part.type = "reasoning" THEN Concat(old.reasoning, part.value)
                                                   ELSE old.reasoning
     /\ (/\ old.platformMsgId # NoPlatformMsg
         /\ ~last'.split.happened
         /\ \A i \in 1..Len(last'.ops) : last'.ops[i].ok)
          => /\ new.platformMsgId = old.platformMsgId
             /\ \A i \in 1..Len(last'.ops) :
                   /\ last'.ops[i].op = "edit"
                   /\ last'.ops[i].pid = old.platformMsgId

\* C29: a stream disconnect followed by a reconnect changes no buffer content
\* (text, reasoning, tools, status, platformMsgId), no active-message entry and
\* no session registry entry; a part that arrives on the new subscription for a
\* known message id continues the same buffer and the same platform message.
C29_ReconnectKeepsBuffers ==
  [][/\ ReconnectStep => ContentKept
     /\ PartOfKnownAfterSubscribe => ContinuesBuffer]_vars

\* after a reconnect a text part was appended to the buffer of before the
\* disconnect and the platform message of before was edited
C29_Witness ==
  /\ last.type = "message.part.updated"
  /\ last.after = "subscribed"
  /\ last.handled
  /\ last.event.part.type = "text"
  /\ Length(msgBuffers[last.mid].text) > Length(last.event.part.value)
  /\ \E i \in 1..Len(last.ops) :
        /\ last.ops[i].op = "edit"
        /\ last.ops[i].ok
        /\ last.ops[i].pid = msgBuffers[last.mid].platformMsgId

\* the step is a /sessions <id|index> or a /new that bound the chat to a session
RebindStep ==
  /\ last'.type \in {"sessions", "new"}
  /\ last'.sid # ""

\* the step is a prompt of a chat that was bound by /sessions or /new and has
\* seen no reset since
PromptAfterRebind ==
  /\ last'.type = "prompt"
  /\ last'.rebind.chat \in DOMAIN last.rebind.bound

\* C30: after a chat rebinds to a session (/sessions <id|index> or /new) its
\* cache key maps to that session, the registry entries of that session point
\* to this chat and its adapter key, and the next prompt of the chat (no reset
\* in between) is sent to that session.
C30_RebindPointsToNewSession ==
  [][/\ RebindStep =>
          LET chat == last'.rebind.chat
              ck == CHOOSE x \in DOMAIN last'.rebind.sessionCache : x[2] = chat
          IN /\ \E x \in DOMAIN last'.rebind.sessionCache : x[2] = chat
             /\ last'.rebind.sessionCache[ck] = last'.sid
             /\ last'.sid \in DOMAIN sessionToCtx'
             /\ sessionToCtx'[last'.sid] = chat
             /\ last'.sid \in DOMAIN sessionToAdapterKey'
             /\ sessionToAdapterKey'[last'.sid] = ck[1]
     /\ PromptAfterRebind =>
          last'.rebind.sent = last.rebind.bound[last'.rebind.chat]]_vars

\* a chat that was on one session has switched to another one and its prompt
\* has gone to the session it switched to
C30_Witness ==
  /\ last.type = "prompt"
  /\ last.rebind.chat \in DOMAIN last.rebind.bound
  /\ last.rebind.sent = last.rebind.bound[last.rebind.chat]
  /\ \E sid \in DOMAIN sessionToCtx :
        sid # last.rebind.sent /\ sessionToCtx[sid] = last.rebind.chat

(***************************************************************************)
(* C31: with several adapters registered in the mux, every send or edit    *)
(* caused by an event of session S is made on the adapter registered under *)
(* the adapter key bound to S and with the chat id bound to S: each adapter *)
(* call of a step whose message belongs to S carries the key and the chat  *)
(* the registries hold for S, in event handlers and in flushAll alike.     *)
(***************************************************************************)
OutputOf(sid) == {i \in 1..Len(last.ops) : SessionOf(last.ops[i].mid) = sid}

DeleteStep == last'.type = "sessions-delete"

CurrentKept ==
  LET ck == CacheKey(last'.rebind.key, last'.rebind.chat)
      current == last'.sid
  IN /\ current \notin last'.rebind.targets
     /\ ck \in DOMAIN last'.rebind.sessionCache
     /\ last'.rebind.sessionCache[ck] = current
     /\ ck \in DOMAIN last.rebind.sessionCache => last.rebind.sessionCache[ck] = current
     /\ IF ck \in DOMAIN last.rebind.sessionCache
          THEN /\ current \in DOMAIN sessionToCtx <=> current \in DOMAIN sessionToCtx'
               /\ current \in DOMAIN sessionToCtx =>
                    sessionToCtx'[current] = sessionToCtx[current]
               /\ current \in DOMAIN sessionToAdapterKey
                    <=> current \in DOMAIN sessionToAdapterKey'
               /\ current \in DOMAIN sessionToAdapterKey =>
                    sessionToAdapterKey'[current] = sessionToAdapterKey[current]
          ELSE /\ current \in DOMAIN sessionToCtx'
               /\ sessionToCtx'[current] = last'.rebind.chat
               /\ current \in DOMAIN sessionToAdapterKey'
               /\ sessionToAdapterKey'[current] = last'.rebind.key

C32_DeleteKeepsCurrentSession == [][DeleteStep => CurrentKept]_vars

\* a /sessions delete that named the current session of the chat, among others,
\* and deleted another session
C32_Witness ==
  /\ last.type = "sessions-delete"
  /\ last.rebind.targets # {}
  /\ last.sid \in DOMAIN sessionToCtx
  /\ \E sid \in last.rebind.targets : sid \notin DOMAIN sessionToCtx

(***************************************************************************)
(* C33: after a chat has rebound from session S1 to session S2, events of   *)
(* S1 are no longer delivered to that chat: every send or edit made into a *)
(* chat comes from an event of the session sessionCache holds for the chat. *)
(***************************************************************************)
BoundSession(route) ==
  LET ck == CacheKey(route.adapterKey, route.chatId)
  IN IF ck \in DOMAIN last.rebind.sessionCache THEN last.rebind.sessionCache[ck] ELSE ""

C33_OnlyBoundSessionDelivers ==
  /\ Len(last.route) = Len(last.ops)
  /\ \A i \in 1..Len(last.ops) :
        SessionOf(last.ops[i].mid) = BoundSession(last.route[i])

(***************************************************************************)
(* C34: lastDisplayHash of a buffer is the hash of the content last         *)
(* delivered for it with success, or empty: a step changes it only to empty *)
(* or to the hash of a display that a send or edit of the step delivered   *)
(* with success, so a send or edit that fails leaves it unchanged.         *)
(***************************************************************************)
DeliveredInStep(m, hash) ==
  \E i \in 1..Len(last'.ops) :
    /\ last'.ops[i].ok
    /\ last'.ops[i].mid = m
    /\ hash # NoHash
    /\ last'.ops[i].text = hash.text
    /\ last'.ops[i].status = hash.status

HashFollowsDelivery(m) ==
  \/ msgBuffers'[m].lastDisplayHash = NoHash
  \/ m \in DOMAIN msgBuffers /\ msgBuffers'[m].lastDisplayHash = msgBuffers[m].lastDisplayHash
  \/ DeliveredInStep(m, msgBuffers'[m].lastDisplayHash)

C34_HashOnlyOfDeliveredContent ==
  [][\A m \in DOMAIN msgBuffers' : HashFollowsDelivery(m)]_vars

(***************************************************************************)
(* C35: content of a user-role message is never aggregated into a buffer   *)
(* or delivered to the platform, in whatever order the message.updated     *)
(* event that announces the role and the message.part.updated events of    *)
(* the message arrive: a message whose role is user has no buffer with     *)
(* content and no platform message.                                        *)
(***************************************************************************)
HasContent(buf) ==
  Length(buf.text) > 0 \/ Length(buf.reasoning) > 0 \/ ToolsSize(buf.tools) > 0

C35_UserContentNeverBuffered ==
  \A m \in DOMAIN msgRole :
    (msgRole[m] = "user" /\ m \in DOMAIN msgBuffers) =>
      /\ ~HasContent(msgBuffers[m])
      /\ msgBuffers[m].platformMsgId = NoPlatformMsg

\* the order in which the role is known first: the parts of a message known to
\* be of the user change nothing and reach no adapter
RoleKnownFirst ==
  /\ last'.type = "message.part.updated"
  /\ last'.mid \in DOMAIN msgRole
  /\ msgRole[last'.mid] = "user"

C35_RoleFirst ==
  [][RoleKnownFirst => (msgBuffers' = msgBuffers /\ last'.ops = << >> /\ ~last'.handled)]_vars

(***************************************************************************)
(* C36: when two incoming messages of one chat are handled concurrently    *)
(* while no session is cached for the chat, at most one backend session is *)
(* created and both prompts go to the same session.                        *)
(***************************************************************************)
C36_OneSessionForConcurrentMessages ==
  /\ Cardinality(last.incoming.created) <= 1
  /\ \A p, q \in Handlers :
        (last.incoming.run[p].prompted # "" /\ last.incoming.run[q].prompted # "") =>
          last.incoming.run[p].prompted = last.incoming.run[q].prompted

(***************************************************************************)
(* C37: a run of the incoming handler whose addReaction returned an id     *)
(* calls removeReaction exactly once before it completes, on every path    *)
(* (slash command handled, pending-question reply, file-only message,      *)
(* prompt sent, thrown error); a run never calls it twice, and never       *)
(* without a reaction id.                                                  *)
(***************************************************************************)
C37_ReactionRemovedOnce ==
  \A p \in Handlers :
    LET run == last.incoming.run[p]
    IN /\ run.removed <= 1
       /\ run.removed = 1 => run.reactionId # ""
       /\ (run.pc = "done" /\ run.reactionId # "") => run.removed = 1
       /\ run.pc # "done" => run.removed = 0

\* a run that added the reaction, threw on its way and has completed
C37_Witness ==
  /\ last.type = "finally"
  /\ last.incoming.run[last.loop].reactionId # ""
  /\ last.incoming.run[last.loop].pc = "done"
  /\ last.incoming.run[last.loop].prompted = ""
  /\ last.incoming.run[last.loop].kind = "text"

(***************************************************************************)
(* C38: a file saved for a chat and queued as pending is attached to at    *)
(* most one later prompt of that chat, and to exactly one as long as its   *)
(* file can be read: a drain returns, in order and once each, the pending  *)
(* records of the chat whose file is on disk, and empties the queue of the *)
(* chat; a second drain with no new save returns nothing; the queue of     *)
(* another chat is untouched; no record is ever returned twice, or to      *)
(* another chat.                                                           *)
(***************************************************************************)
DrainStep == last'.type = "drain"

DrainedChat == CacheKey(IncomingKey, last'.files.chat)

QueueBefore == PendingOf(last.files.store, DrainedChat)

OtherQueuesUntouched ==
  \A ck \in (DOMAIN last.files.store.pendingFiles) \ {DrainedChat} :
    /\ ck \in DOMAIN last'.files.store.pendingFiles
    /\ last'.files.store.pendingFiles[ck] = last.files.store.pendingFiles[ck]

DrainReturnsReadable ==
  /\ last'.files.parts = ReadableParts(QueueBefore, last.files.store.disk)
  /\ \A i \in 1..Len(last'.files.parts) : last'.files.parts[i].chatKey = DrainedChat
  /\ PendingOf(last'.files.store, DrainedChat) = << >>
  /\ QueueBefore = << >> => last'.files.parts = << >>
  /\ OtherQueuesUntouched
  /\ \A id \in DOMAIN last'.files.attached : last'.files.attached[id] <= 1

C38_PendingFileAttachedOnce == [][DrainStep => DrainReturnsReadable]_vars

\* the statement without the condition on the file: a drain returns every
\* pending record of the chat
C38_EveryPendingRecordReturned ==
  [][DrainStep => (last'.files.parts = QueueBefore)]_vars

\* a drain that returned a file of one chat while another chat had files queued,
\* after an earlier drain of the same chat
C38_Witness ==
  /\ last.type = "drain"
  /\ Len(last.files.parts) = 1
  /\ Cardinality(DOMAIN last.files.attached) = 2
  /\ \E ck \in DOMAIN last.files.store.pendingFiles :
        Len(last.files.store.pendingFiles[ck]) = 1

(***************************************************************************)
(* C39: isMessageProcessed returns false the first time a message id is    *)
(* seen and true on every later call while the id is among the most        *)
(* recently recorded ids; after a call the set holds no more than 2000     *)
(* ids, and the id evicted is the oldest recorded one: the set is always   *)
(* the (at most) 2000 ids recorded last, in the order of recording.        *)
(***************************************************************************)
MostRecent(log) ==
  IF Len(log) > PROCESSED_IDS_LIMIT
    THEN SubSeq(log, Len(log) - PROCESSED_IDS_LIMIT + 1, Len(log))
    ELSE log

CallStep == last'.type = "im.message.receive_v1"

AnswerOfCall ==
  /\ last'.dedup.id > last.dedup.made => ~last'.dedup.result
  /\ last'.dedup.result <=> Contains(MostRecent(last.dedup.log), last'.dedup.id)
  /\ Len(last'.dedup.ids) <= PROCESSED_IDS_LIMIT
  /\ last'.dedup.ids = MostRecent(last'.dedup.log)
  /\ (~last'.dedup.result /\ Len(last.dedup.ids) = PROCESSED_IDS_LIMIT) =>
       /\ ~Contains(last'.dedup.ids, Head(last.dedup.ids))
       /\ last'.dedup.ids = Append(Tail(last.dedup.ids), last'.dedup.id)

C40_MarkerClearedAfterRefresh ==
  LET r == last.refresh
  IN r.refreshTenantTokenPromise # 0 => r.promises[r.refreshTenantTokenPromise] = "pending"

\* the part that holds: at most one request is in flight, a call made during
\* it issues no request and gets its promise, and the marker is cleared when
\* the request is answered with or without a token
RefreshCallStep ==
  /\ last'.type \in {"runWithTenantRetry", "fn"}
  /\ \E c \in Callers : /\ last'.refresh.callers[c].awaits # 0
                         /\ last'.refresh.callers[c] # last.refresh.callers[c]

SharesInFlight ==
  LET r == last.refresh
  IN (r.refreshTenantTokenPromise # 0 /\ r.promises[r.refreshTenantTokenPromise] = "pending") =>
       /\ last'.refresh.promises = r.promises
       /\ \A c \in Callers :
            last'.refresh.callers[c] # r.callers[c] =>
              last'.refresh.callers[c].awaits = r.refreshTenantTokenPromise

C40_ConcurrentCallersShareOneRequest == [][RefreshCallStep => SharesInFlight]_vars

C40_OneRequestInFlight ==
  \A i, j \in 1..Len(last.refresh.promises) :
    (last.refresh.promises[i] = "pending" /\ last.refresh.promises[j] = "pending") => i = j

C40_ClearedUnlessThrown ==
  [][(last'.type = "tenantAccessToken" /\ last'.refresh.answer # "thrown")
       => last'.refresh.refreshTenantTokenPromise = 0]_vars

====
